---------------------------- MODULE Spec2Model ----------------------------
(***************************************************************************)
(* Model of python/sglang/srt/layers/moe/ep_moe/layer.py: the expert-      *)
(* parallel MoE layers EPMoE and DeepEPMoE.                                *)
(*                                                                         *)
(* Nine specifications share the module, one per part of the layer:        *)
(*   SpecPartition  construction of the EPMoE layers of every rank of one  *)
(*                  expert-parallel group (the expert partition map);      *)
(*   SpecLoad       weight loading into one constructed layer;             *)
(*   SpecDeepEP     construction and forward dispatch of one DeepEPMoE     *)
(*                  layer (the execution-mode controller);                 *)
(*   SpecDense      two forward calls of one EPMoE layer, interleaved      *)
(*                  statement by statement;                                *)
(*   SpecRoute      one forward call of one EPMoE layer with the buffers   *)
(*                  it fills: the routing of tokens to experts and back;   *)
(*   SpecScale      the weight scales that forward_deepgemm hands to the   *)
(*                  grouped matmuls;                                       *)
(*   SpecBuf        one call of one pipeline, statement by statement, with *)
(*                  the buffers it binds, reads and releases;              *)
(*   SpecShards     the three shards of one expert loaded in any order;    *)
(*   SpecAiter      one call of forward_aiter with the expert ids it is    *)
(*                  given and the ones it hands on.                        *)
(* A specification leaves the variables of the other parts at their idle   *)
(* values.                                                                 *)
(***************************************************************************)
EXTENDS Integers, Sequences, FiniteSets, TLC

VARIABLES
    world,      \* SpecPartition: [num_experts, tp_size] of the group
    layers,     \* SpecPartition: rank -> the EPMoE layer built for it
    layer,      \* SpecLoad: the layer that loads weights
    params,     \* SpecLoad: the layer's parameters
    load,       \* SpecLoad: the last weight_loader call and its outcome
    loaded,     \* SpecLoad: history of the input-scale loads per expert
    env,        \* SpecDeepEP, SpecDense: the process-wide flags
    dlayer,     \* SpecDeepEP: the DeepEPMoE layer
    call,       \* SpecDeepEP: the last forward call and its outcome
    elayer,     \* SpecDense: the EPMoE layer shared by the calls
    fwd,        \* SpecDense: the forward calls in flight
    route       \* SpecRoute: the last routed forward call, with its buffers

vars == <<world, layers, layer, params, load, loaded, env, dlayer, call,
          elayer, fwd, route>>

(***************************************************************************)
(* Bounds of the model.                                                    *)
(***************************************************************************)
\* largest total number of experts of a group (SpecPartition)
MaxExperts == 8
\* largest expert-parallel world size (SpecPartition)
MaxShards == 4

Min(a, b) == IF a < b THEN a ELSE b
Max(a, b) == IF a > b THEN a ELSE b

\* Python's None
None == [present |-> FALSE]
Some(v) == [present |-> TRUE, data |-> v]

(***************************************************************************)
(* 1. Expert partition map: EPMoE.__init__ and determine_expert_map.       *)
(* A tensor is a function over 0..n-1.                                     *)
(***************************************************************************)
\* torch.arange(0, n)
Arange(n) == [i \in 0 .. n - 1 |-> i]

\* torch.full((n,), v)
Full(n, v) == [i \in 0 .. n - 1 |-> v]

\* t[lo:hi] = vals, with Python's clamping of the slice bounds
SliceAssign(t, lo, hi, vals) ==
    LET n == Cardinality(DOMAIN t)
        l == Min(Max(lo, 0), n)
        h == Min(Max(hi, 0), n)
    IN [i \in DOMAIN t |-> IF l <= i /\ i < h THEN vals[i - l] ELSE t[i]]

\* t[-k:] = vals (Python: -0 is 0, the whole tensor)
TailAssign(t, k, vals) ==
    LET n == Cardinality(DOMAIN t)
    IN SliceAssign(t, IF k = 0 THEN 0 ELSE n - k, n, vals)

\* determine_expert_map with -1 in place of the sentinel (the vLLM original)
DetermineExpertMapMinusOne(num_experts, tp_size, tp_rank) ==
    IF tp_size = 1
    THEN [local_num_experts |-> num_experts, expert_map |-> None]
    ELSE LET local == num_experts \div tp_size
             full == Full(num_experts, -1)
         IN IF tp_rank < tp_size - 1
            THEN [local_num_experts |-> local,
                  expert_map |-> Some(SliceAssign(full, tp_rank * local,
                                       (tp_rank + 1) * local, Arange(local)))]
            ELSE LET last == num_experts - tp_rank * local
                 IN [local_num_experts |-> last,
                     expert_map |-> Some(TailAssign(full, last, Arange(last)))]

\* determine_expert_map without the shortcut for a single rank
DetermineExpertMapAlwaysMaps(num_experts, tp_size, tp_rank) ==
    LET local == num_experts \div tp_size
        full == Full(num_experts, num_experts)
    IN IF tp_rank < tp_size - 1
       THEN [local_num_experts |-> local,
             expert_map |-> Some(SliceAssign(full, tp_rank * local,
                                  (tp_rank + 1) * local, Arange(local)))]
       ELSE LET last == num_experts - tp_rank * local
            IN [local_num_experts |-> last,
                expert_map |-> Some(TailAssign(full, last, Arange(last)))]

\* EPMoE.determine_expert_map: (local_num_experts, expert_map)
DetermineExpertMap(num_experts, tp_size, tp_rank) ==
    IF tp_size = 1
    THEN [local_num_experts |-> num_experts, expert_map |-> None]
    ELSE LET local == num_experts \div tp_size
             full == Full(num_experts, num_experts)
         IN IF tp_rank < tp_size - 1
            THEN [local_num_experts |-> local,
                  expert_map |-> Some(SliceAssign(full, tp_rank * local,
                                       (tp_rank + 1) * local, Arange(local)))]
            ELSE LET last == num_experts - tp_rank * local
                 IN [local_num_experts |-> last,
                     expert_map |-> Some(TailAssign(full, last, Arange(last)))]

\* the partition fields with end_expert_id one past the last owned id
PartitionOfEndExclusive(num_experts, tp_size, tp_rank) ==
    LET m == DetermineExpertMap(num_experts, tp_size, tp_rank)
        start == tp_rank * m.local_num_experts
    IN [num_experts |-> num_experts, tp_size |-> tp_size, tp_rank |-> tp_rank,
        num_experts_per_partition |-> m.local_num_experts,
        expert_map |-> m.expert_map,
        start_expert_id |-> start,
        end_expert_id |-> start + m.local_num_experts]

\* EPMoE.__init__, lines 176-180, once the assertion has passed
PartitionOf(num_experts, tp_size, tp_rank) ==
    LET m == DetermineExpertMap(num_experts, tp_size, tp_rank)
        start == tp_rank * m.local_num_experts
    IN [num_experts |-> num_experts, tp_size |-> tp_size, tp_rank |-> tp_rank,
        num_experts_per_partition |-> m.local_num_experts,
        expert_map |-> m.expert_map,
        start_expert_id |-> start,
        end_expert_id |-> start + m.local_num_experts - 1]

\* an assertion that only asks for one expert per rank
PartitionAssertOnePerRank(num_experts, tp_size) == num_experts >= tp_size

\* assert self.num_experts % self.tp_size == 0
PartitionAssert(num_experts, tp_size) == num_experts % tp_size = 0

NotBuilt == [status |-> "absent"]
Failed(e) == [status |-> "error", error |-> e]
Built(fields) == [status |-> "ok", self |-> fields]

\* the layer of one rank, or the failure of its construction
EPMoEInit(num_experts, tp_size, tp_rank) ==
    IF ~PartitionAssert(num_experts, tp_size)
    THEN Failed("AssertionError")
    ELSE Built(PartitionOf(num_experts, tp_size, tp_rank))

\* the global expert ids a layer owns
OwnedIds(l) == {g \in 0 .. l.num_experts - 1 :
                   l.start_expert_id <= g /\ g <= l.end_expert_id}

IdleLoad ==
    /\ layer = NotBuilt
    /\ params = <<>>
    /\ load = [op |-> "none"]
    /\ loaded = <<>>

IdleDeepEP ==
    /\ env = [idle |-> TRUE]
    /\ dlayer = NotBuilt
    /\ call = [op |-> "none"]

IdleDense ==
    /\ elayer = NotBuilt
    /\ fwd = <<>>

IdleRoute ==
    /\ route = [op |-> "none"]

IdlePartition ==
    /\ world = [num_experts |-> 0, tp_size |-> 0]
    /\ layers = <<>>

InitPartition ==
    /\ world \in [num_experts : 1 .. MaxExperts, tp_size : 1 .. MaxShards]
    /\ layers = [r \in 0 .. world.tp_size - 1 |-> NotBuilt]
    /\ IdleLoad /\ IdleDeepEP /\ IdleDense /\ IdleRoute

\* the process of rank r constructs its layer
Construct(r) ==
    /\ layers[r].status = "absent"
    /\ layers' = [layers EXCEPT
                    ![r] = EPMoEInit(world.num_experts, world.tp_size, r)]
    /\ UNCHANGED <<world, layer, params, load, loaded, env, dlayer, call,
                   elayer, fwd,
                   route>>

NextPartition == \E r \in DOMAIN layers : Construct(r)

SpecPartition == InitPartition /\ [][NextPartition]_vars


(***************************************************************************)
(* 2. Weight loading: EPMoE.weight_loader, _weight_loader_physical and     *)
(* _load_fp8_scale.                                                        *)
(*                                                                         *)
(* A parameter is a tensor [expert][row]; a loaded tensor is uniform, so   *)
(* that one value stands for it.  Scales are counted in units of 1e-6:     *)
(* 1000000 is the 1.0 that a scale holds before it is loaded.              *)
(***************************************************************************)
\* most weight_loader calls of one behaviour
MaxLoads == 2
\* intermediate_size of the layer that loads
IntermediateSize == 2
\* hidden_size of the layer that loads
HiddenSize == 1
\* weight_block_size of a block-quantized layer, both ways
BlockSize == 2

\* the scale 1.0 of line 811
One == 1000000
\* the tolerance 1e-5 of line 812
Tolerance == 10

Abs(x) == IF x < 0 THEN -x ELSE x
CeilDiv(a, b) == (a + b - 1) \div b

\* the values a checkpoint supplies: 1.0, 0.5, 0.500008 and 0.50002
LoadVals == {One, 500000, 500008, 500020}

ShardIds == {"w1", "w2", "w3"}
\* a shard id no checkpoint mapping produces
BadShardIds == {"w4"}

\* the checkpoint names that weight_loader tells apart
WeightNames == {"weight", "input_scale", "weight_scale"}
\* "scale" in weight_name
HasScale(weight_name) == weight_name \in {"input_scale", "weight_scale"}
\* "input_scale" in weight_name
HasInputScale(weight_name) == weight_name = "input_scale"
\* "weight_scale" in weight_name
HasWeightScale(weight_name) == weight_name = "weight_scale"

\* the quantization configurations a layer that loads is built with:
\* none, fp8 per tensor, fp8 per block and 4-bit weights
QuantConfigs == {"none", "fp8", "fp8_block", "w4afp8"}

\* the W4AFp8Config configurations: "w4afp8" has moe_activation_scheme
\* static, "w4afp8_dynamic" dynamic
W4AFp8Configs == {"w4afp8", "w4afp8_dynamic"}

\* EPMoE.__init__, lines 188-219: the attributes the quantization sets
\* ("fp8" has activation_scheme static, "fp8_dynamic" dynamic); the
\* W4AFp8Config branch assigns no block_shape, and the layer has no such
\* attribute
QuantFields(quant_config) ==
    IF quant_config = "none"
    THEN [use_fp8_w8a8 |-> FALSE, use_block_quant |-> FALSE,
          use_w4afp8 |-> FALSE, block_shape |-> None,
          activation_scheme |-> "None"]
    ELSE IF quant_config \in W4AFp8Configs
    THEN [use_fp8_w8a8 |-> FALSE, use_block_quant |-> FALSE,
          use_w4afp8 |-> TRUE,
          activation_scheme |-> IF quant_config = "w4afp8"
                                THEN "static" ELSE "dynamic"]
    ELSE [use_fp8_w8a8 |-> TRUE,
          use_block_quant |-> (quant_config = "fp8_block"),
          use_w4afp8 |-> FALSE,
          block_shape |-> IF quant_config = "fp8_block"
                          THEN Some(<<BlockSize, BlockSize>>) ELSE None,
          activation_scheme |-> IF quant_config = "fp8"
                                THEN "static" ELSE "dynamic"]

\* hasattr(l, name)
HasAttr(l, name) == name \in DOMAIN l

\* param_data[expert_id] = loaded_weight
AssignSlot(param_data, expert_id, v) ==
    [param_data EXCEPT ![expert_id] = [r \in DOMAIN @ |-> v]]

\* param_data[expert_id][lo:hi] = loaded_weight
AssignRows(param_data, expert_id, lo, hi, v) ==
    [param_data EXCEPT
        ![expert_id] = SliceAssign(@, lo, hi, [i \in 0 .. hi |-> v])]

\* the number of rows of one expert's slot
Rows(param_data, expert_id) == Cardinality(DOMAIN param_data[expert_id])

Returned(p) == [param |-> p, raised |-> FALSE]
Raised(p) == [param |-> p, raised |-> TRUE]

\* EPMoE._load_fp8_scale
LoadFp8Scale(l, param_data, loaded_weight, weight_name, shard_id, expert_id) ==
    LET n == Rows(param_data, expert_id)
        whole == AssignSlot(param_data, expert_id, loaded_weight)
    IN IF HasInputScale(weight_name)
       THEN IF l.use_w4afp8
            THEN IF shard_id = "w1"
                 THEN Returned(AssignRows(param_data, expert_id, 0, 1,
                                          loaded_weight))
                 ELSE IF shard_id = "w3"
                 THEN Returned(AssignRows(param_data, expert_id, 1, 2,
                                          loaded_weight))
                 ELSE Returned(whole)
            ELSE IF /\ shard_id \in {"w1", "w3"}
                    /\ param_data[expert_id][0] # One
                    /\ Abs(param_data[expert_id][0] - loaded_weight)
                           > Tolerance
                 THEN Raised(param_data)
                 ELSE Returned(whole)
       ELSE IF HasWeightScale(weight_name)
       THEN IF l.use_block_quant
            THEN LET block_n == l.block_shape.data[1]
                     split == CeilDiv(l.intermediate_size, block_n)
                 IN IF shard_id = "w1"
                    THEN Returned(AssignRows(param_data, expert_id, 0, split,
                                             loaded_weight))
                    ELSE IF shard_id = "w3"
                    THEN Returned(AssignRows(param_data, expert_id, split, n,
                                             loaded_weight))
                    ELSE Returned(whole)
            ELSE IF l.use_w4afp8
            THEN IF shard_id = "w1"
                 THEN Returned(AssignRows(param_data, expert_id, 0,
                                          l.intermediate_size, loaded_weight))
                 ELSE IF shard_id = "w3"
                 THEN Returned(AssignRows(param_data, expert_id,
                                          l.intermediate_size, n,
                                          loaded_weight))
                 ELSE Returned(whole)
            ELSE IF shard_id \in {"w1", "w3"}
                 THEN LET idx == IF shard_id = "w1" THEN 0 ELSE 1
                      IN Returned(AssignRows(param_data, expert_id, idx,
                                             idx + 1, loaded_weight))
                 ELSE Returned(whole)
       ELSE Returned(param_data)

\* _weight_loader_physical with the shard id checked before the range
WeightLoaderPhysicalCheckFirst(l, param_data, loaded_weight, weight_name, shard_id, expert_id) ==
    IF shard_id \notin ShardIds
    THEN Raised(param_data)
    ELSE IF expert_id < l.start_expert_id \/ expert_id > l.end_expert_id
    THEN Returned(param_data)
    ELSE LET local == expert_id - l.start_expert_id
         IN IF HasScale(weight_name)
            THEN LoadFp8Scale(l, param_data, loaded_weight, weight_name,
                              shard_id, local)
            ELSE IF shard_id = "w2"
            THEN Returned(AssignSlot(param_data, local, loaded_weight))
            ELSE IF shard_id = "w1"
            THEN Returned(AssignRows(param_data, local, 0,
                                     l.intermediate_size, loaded_weight))
            ELSE Returned(AssignRows(param_data, local, l.intermediate_size,
                                     Rows(param_data, local), loaded_weight))

\* _weight_loader_physical without the range check: the id is used as it is
WeightLoaderPhysicalNoRange(l, param_data, loaded_weight, weight_name, shard_id, expert_id) ==
    LET local == IF expert_id \in DOMAIN param_data THEN expert_id ELSE 0
    IN IF shard_id \notin ShardIds
       THEN Raised(param_data)
       ELSE IF HasScale(weight_name)
       THEN LoadFp8Scale(l, param_data, loaded_weight, weight_name,
                         shard_id, local)
       ELSE IF shard_id = "w2"
       THEN Returned(AssignSlot(param_data, local, loaded_weight))
       ELSE IF shard_id = "w1"
       THEN Returned(AssignRows(param_data, local, 0,
                                l.intermediate_size, loaded_weight))
       ELSE Returned(AssignRows(param_data, local, l.intermediate_size,
                                Rows(param_data, local), loaded_weight))

\* _weight_loader_physical whose up shard starts at row 0 of the slot
WeightLoaderPhysicalUpFromZero(l, param_data, loaded_weight, weight_name, shard_id, expert_id) ==
    IF expert_id < l.start_expert_id \/ expert_id > l.end_expert_id
    THEN Returned(param_data)
    ELSE LET local == expert_id - l.start_expert_id
         IN IF shard_id \notin ShardIds
            THEN Raised(param_data)
            ELSE IF HasScale(weight_name)
            THEN LoadFp8Scale(l, param_data, loaded_weight, weight_name,
                              shard_id, local)
            ELSE IF shard_id = "w2"
            THEN Returned(AssignSlot(param_data, local, loaded_weight))
            ELSE IF shard_id = "w1"
            THEN Returned(AssignRows(param_data, local, 0,
                                     l.intermediate_size, loaded_weight))
            ELSE IF shard_id = "w3"
            THEN Returned(AssignRows(param_data, local, 0,
                                     Rows(param_data, local), loaded_weight))
            ELSE Raised(param_data)

\* EPMoE._weight_loader_physical
WeightLoaderPhysical(l, param_data, loaded_weight, weight_name, shard_id, expert_id) ==
    IF expert_id < l.start_expert_id \/ expert_id > l.end_expert_id
    THEN Returned(param_data)
    ELSE LET local == expert_id - l.start_expert_id
         IN IF shard_id \notin ShardIds
            THEN Raised(param_data)
            ELSE IF HasScale(weight_name)
            THEN LoadFp8Scale(l, param_data, loaded_weight, weight_name,
                              shard_id, local)
            ELSE IF shard_id = "w2"
            THEN Returned(AssignSlot(param_data, local, loaded_weight))
            ELSE IF shard_id = "w1"
            THEN Returned(AssignRows(param_data, local, 0,
                                     l.intermediate_size, loaded_weight))
            ELSE IF shard_id = "w3"
            THEN Returned(AssignRows(param_data, local, l.intermediate_size,
                                     Rows(param_data, local), loaded_weight))
            ELSE Raised(param_data)

\* the loop of EPMoE.weight_loader over the physical ids, from the i-th on
RECURSIVE WeightLoaderFrom(_, _, _, _, _, _, _)
WeightLoaderFrom(l, param_data, loaded_weight, weight_name, shard_id, physical_expert_ids, i) ==
    IF i > Len(physical_expert_ids)
    THEN Returned(param_data)
    ELSE LET r == WeightLoaderPhysical(l, param_data, loaded_weight,
                                       weight_name, shard_id,
                                       physical_expert_ids[i])
         IN IF r.raised
            THEN r
            ELSE WeightLoaderFrom(l, r.param, loaded_weight, weight_name,
                                  shard_id, physical_expert_ids, i + 1)

\* weight_loader that loads the first physical slot only
WeightLoaderFirstOnly(l, param_data, loaded_weight, weight_name, shard_id, expert_id) ==
    WeightLoaderPhysical(l, param_data, loaded_weight, weight_name, shard_id,
                         l.logical_to_all_physical[expert_id][1])

\* EPMoE.weight_loader
WeightLoader(l, param_data, loaded_weight, weight_name, shard_id, expert_id) ==
    WeightLoaderFrom(l, param_data, loaded_weight, weight_name, shard_id,
                     l.logical_to_all_physical[expert_id], 1)

\* a tensor of `rows` rows, all v, for each of n experts
Param(n, rows, v) == [e \in 0 .. n - 1 |-> [r \in 0 .. rows - 1 |-> v]]

\* the parameters that quant_method.create_weights registers, by
\* (projection, kind); weights are torch.empty (0 here), scales torch.ones
CreateWeights(l, quant_config) ==
    LET n == l.num_experts_per_partition
        i == l.intermediate_size
        weights == (<<"w13", "weight">> :> Param(n, 2 * i, 0))
                   @@ (<<"w2", "weight">> :> Param(n, HiddenSize, 0))
    IN IF quant_config = "fp8"
       THEN weights
            @@ (<<"w13", "weight_scale">> :> Param(n, 2, One))
            @@ (<<"w2", "weight_scale">> :> Param(n, 1, One))
            @@ (<<"w13", "input_scale">> :> Param(n, 1, One))
            @@ (<<"w2", "input_scale">> :> Param(n, 1, One))
       ELSE IF quant_config = "fp8_block"
       THEN weights
            @@ (<<"w13", "weight_scale">>
                    :> Param(n, 2 * CeilDiv(i, BlockSize), One))
            @@ (<<"w2", "weight_scale">>
                    :> Param(n, CeilDiv(HiddenSize, BlockSize), One))
       ELSE IF quant_config \in W4AFp8Configs
       THEN weights
            @@ (<<"w13", "weight_scale">> :> Param(n, 2 * i, One))
            @@ (<<"w2", "weight_scale">> :> Param(n, HiddenSize, One))
            @@ (<<"w13", "input_scale">> :> Param(n, 2, One))
            @@ (<<"w2", "input_scale">> :> Param(n, 1, One))
       ELSE weights

\* make_expert_params_mapping and make_expert_input_scale_params_mapping:
\* the projection whose parameter a shard is loaded into
ParamPrefix(shard_id) == IF shard_id \in {"w1", "w3"} THEN "w13" ELSE "w2"

\* logical_to_all_physical of the expert location metadata: every expert
\* in its own slot, or each logical expert in two physical slots
Locations(num_experts) ==
    {[e \in 0 .. num_experts - 1 |-> <<e>>]}
    \cup (IF num_experts % 2 = 0
          THEN {[e \in 0 .. (num_experts \div 2) - 1 |->
                    <<e, e + (num_experts \div 2)>>],
                [e \in 0 .. (num_experts \div 2) - 1 |->
                    <<2 * e, 2 * e + 1>>]}
          ELSE {})

\* the layers that load weights: EPMoE.__init__ with the partition, the
\* quantization flags and the sizes
LoadLayer(num_experts, tp_size, tp_rank, quant_config, location) ==
    PartitionOf(num_experts, tp_size, tp_rank)
    @@ QuantFields(quant_config)
    @@ [quant_config |-> quant_config,
        intermediate_size |-> IntermediateSize,
        logical_to_all_physical |-> location]

\* the (num_experts, tp_size) of the layers that load weights
LoadWorlds == {<<2, 1>>, <<2, 2>>, <<4, 2>>}

InitLoad ==
    /\ \E w \in LoadWorlds, q \in QuantConfigs :
         \E r \in 0 .. w[2] - 1, loc \in Locations(w[1]) :
            /\ PartitionAssert(w[1], w[2])
            /\ layer = Built(LoadLayer(w[1], w[2], r, q, loc))
            /\ params = CreateWeights(layer.self, q)
    /\ load = [op |-> "none", raised |-> FALSE, count |-> 0]
    /\ loaded = [e \in 0 .. layer.self.num_experts_per_partition - 1 |->
                    [w1 |-> None, w3 |-> None]]
    /\ IdlePartition /\ IdleDeepEP /\ IdleDense /\ IdleRoute

\* the local slots among the physical slots of a logical expert
LocalSlots(l, expert_id) ==
    LET ids == l.logical_to_all_physical[expert_id]
    IN {ids[i] - l.start_expert_id : i \in
          {j \in 1 .. Len(ids) : l.start_expert_id <= ids[j]
                                  /\ ids[j] <= l.end_expert_id}}

\* the tensor a checkpoint holds under a name: an input scale is any of
\* LoadVals; a weight or weight scale is told by its expert and shard
ShardNo(shard_id) ==
    IF shard_id = "w1" THEN 1 ELSE IF shard_id = "w2" THEN 2
    ELSE IF shard_id = "w3" THEN 3 ELSE 4
ValuesOf(weight_name, shard_id, expert_id) ==
    IF HasInputScale(weight_name)
    THEN LoadVals
    ELSE {10 * (expert_id + 1) + ShardNo(shard_id)}

\* one call of weight_loader by the model's load_weights
LoadWeight(weight_name, shard_id, expert_id, loaded_weight) ==
    LET l == layer.self
        key == <<ParamPrefix(shard_id), weight_name>>
        gateup == HasInputScale(weight_name) /\ shard_id \in {"w1", "w3"}
        r == WeightLoader(l, params[key], loaded_weight, weight_name,
                          shard_id, expert_id)
    IN /\ layer.status = "ok"
       /\ ~load.raised
       /\ load.count < MaxLoads
       /\ key \in DOMAIN params
       \* each checkpoint shard of an expert is loaded once
       /\ gateup => \A e \in LocalSlots(l, expert_id) :
                        ~loaded[e][shard_id].present
       /\ params' = [params EXCEPT ![key] = r.param]
       /\ load' = [op |-> "weight_loader", weight_name |-> weight_name,
                   shard_id |-> shard_id, expert_id |-> expert_id,
                   loaded_weight |-> loaded_weight, raised |-> r.raised,
                   changed |-> ([params EXCEPT ![key] = r.param] # params),
                   count |-> load.count + 1]
       /\ loaded' = IF gateup /\ ~r.raised
                    THEN [e \in DOMAIN loaded |->
                            IF e \in LocalSlots(l, expert_id)
                            THEN [loaded[e] EXCEPT
                                    ![shard_id] = Some(loaded_weight)]
                            ELSE loaded[e]]
                    ELSE loaded
       /\ UNCHANGED <<world, layers, layer, env, dlayer, call, elayer, fwd,
                   route>>

NextLoad ==
    \E weight_name \in WeightNames, shard_id \in ShardIds \cup BadShardIds :
        \E expert_id \in DOMAIN layer.self.logical_to_all_physical :
            \E loaded_weight \in ValuesOf(weight_name, shard_id, expert_id) :
                LoadWeight(weight_name, shard_id, expert_id, loaded_weight)

SpecLoad == InitLoad /\ [][NextLoad]_vars

(***************************************************************************)
(* 3. DeepEPMoE: construction and the forward dispatch.                    *)
(*                                                                         *)
(* A forward call is described by what the token exchange delivered:       *)
(* recv[e], the number of tokens routed to local expert e.  A token is     *)
(* <<e, i>>, the i-th token of expert e.  A pipeline returns the kernels   *)
(* it issued (stages) and the tokens its output holds.                     *)
(***************************************************************************)
\* most tokens the exchange routes to one expert in one pass
MaxRecv == 6
\* rows per expert of the capacity-bounded layout (m_max)
Capacity == 4

DeepEPModes == {"normal", "low_latency", "auto"}
Activations == {"silu", "gelu", "relu"}
DeepQuantConfigs == QuantConfigs \cup {"fp8_dynamic", "w4afp8_dynamic"}

\* DeepEPMode.enable_low_latency
EnableLowLatency(deepep_mode) == deepep_mode \in {"low_latency", "auto"}

\* DeepEPMode.resolve
Resolve(deepep_mode, is_extend_in_batch) ==
    IF deepep_mode # "auto" THEN deepep_mode
    ELSE IF is_extend_in_batch THEN "normal" ELSE "low_latency"

\* the input scales a layer holds after create_weights
InitialInputScale(quant_config) ==
    IF quant_config \in {"fp8"} \cup W4AFp8Configs THEN "loaded" ELSE "None"

\* the layers on which create_weights registers w13_weight_scale_inv and
\* w2_weight_scale_inv: the block-quantized and the 4-bit ones
HasWeightScaleInv(l) == l.use_block_quant \/ l.use_w4afp8

\* DeepEPMoE.__init__ without the assertion on use_fp8_w8a8
DeepEPMoEInitNoFp8Assert(e, num_experts, tp_size, tp_rank, quant_config, activation, deepep_mode) ==
    LET q == QuantFields(quant_config)
    IN IF ~PartitionAssert(num_experts, tp_size)
       THEN Failed("AssertionError")
       ELSE IF EnableLowLatency(deepep_mode) /\ ~e.ENABLE_JIT_DEEPGEMM
       THEN Failed("AssertionError")
       ELSE Built(PartitionOf(num_experts, tp_size, tp_rank) @@ q
                  @@ [quant_config |-> quant_config,
                      activation |-> activation,
                      deepep_mode |-> deepep_mode,
                      w13_input_scale |-> InitialInputScale(quant_config),
                      w2_input_scale |-> InitialInputScale(quant_config),
                      expert_mask |->
                          IF e.use_aiter
                          THEN Some([i \in 0 .. num_experts \div tp_size |->
                                      IF i < num_experts \div tp_size
                                      THEN 1 ELSE 0])
                          ELSE None])

\* DeepEPMoE.__init__ without the assertion on the low-latency modes
DeepEPMoEInitNoLowLatencyAssert(e, num_experts, tp_size, tp_rank, quant_config, activation, deepep_mode) ==
    LET q == QuantFields(quant_config)
    IN IF ~PartitionAssert(num_experts, tp_size)
       THEN Failed("AssertionError")
       ELSE IF e.ENABLE_JIT_DEEPGEMM /\ ~q.use_fp8_w8a8
       THEN Failed("AssertionError")
       ELSE Built(PartitionOf(num_experts, tp_size, tp_rank) @@ q
                  @@ [quant_config |-> quant_config,
                      activation |-> activation,
                      deepep_mode |-> deepep_mode,
                      w13_input_scale |-> InitialInputScale(quant_config),
                      w2_input_scale |-> InitialInputScale(quant_config),
                      expert_mask |->
                          IF e.use_aiter
                          THEN Some([i \in 0 .. num_experts \div tp_size |->
                                      IF i < num_experts \div tp_size
                                      THEN 1 ELSE 0])
                          ELSE None])

\* DeepEPMoE.__init__
DeepEPMoEInit(e, num_experts, tp_size, tp_rank, quant_config, activation, deepep_mode) ==
    LET q == QuantFields(quant_config)
    IN IF ~PartitionAssert(num_experts, tp_size)
       THEN Failed("AssertionError")
       ELSE IF e.ENABLE_JIT_DEEPGEMM /\ ~q.use_fp8_w8a8
       THEN Failed("AssertionError")
       ELSE IF EnableLowLatency(deepep_mode) /\ ~e.ENABLE_JIT_DEEPGEMM
       THEN Failed("AssertionError")
       ELSE Built(PartitionOf(num_experts, tp_size, tp_rank) @@ q
                  @@ [quant_config |-> quant_config,
                      activation |-> activation,
                      deepep_mode |-> deepep_mode,
                      w13_input_scale |-> InitialInputScale(quant_config),
                      w2_input_scale |-> InitialInputScale(quant_config),
                      expert_mask |->
                          IF e.use_aiter
                          THEN Some([i \in 0 .. num_experts \div tp_size |->
                                      IF i < num_experts \div tp_size
                                      THEN 1 ELSE 0])
                          ELSE None])

RECURSIVE SumTo(_, _)
\* f[0] + ... + f[n]
SumTo(f, n) == IF n < 0 THEN 0 ELSE f[n] + SumTo(f, n - 1)
\* sum(num_recv_tokens_per_expert)
Sum(f) == SumTo(f, Cardinality(DOMAIN f) - 1)

\* the tokens delivered: the i-th token of local expert e
Tokens(recv) == {<<e, i>> \in (DOMAIN recv) \X (1 .. MaxRecv) : i <= recv[e]}

\* a pipeline's result
Return(l, stages, out) ==
    [outcome |-> "returned", error |-> "", stages |-> stages, output |-> out,
     self |-> l]
Raise(l, error, stages) ==
    [outcome |-> "raised", error |-> error, stages |-> stages,
     output |-> [kind |-> "none"], self |-> l]

\* the grouped-matmul kernels
GemmKernels == {"grouped_gemm_triton", "grouped_gemm_nt_f8f8bf16_contig",
                "grouped_gemm_nt_f8f8bf16_masked", "fused_moe"}

\* a kernel launch, with the per-expert row counts it is given
Launch(kernel, counts) == [kernel |-> kernel, counts |-> counts]

\* what the low-latency exchange hands over for recv: the padded layout
\* [expert][row] of capacity m_max (row r holds token r+1, <<e, 0>> is
\* padding), masked_m capped at m_max and the average-count hint
LowLatencyDispatch(recv, m_max) ==
    [hidden_states |->
        [e \in DOMAIN recv |->
            [r \in 0 .. m_max - 1 |->
                IF r < recv[e] THEN <<e, r + 1>> ELSE <<e, 0>>]],
     masked_m |-> [e \in DOMAIN recv |-> Min(recv[e], m_max)],
     expected_m |-> CeilDiv(Sum(recv), Cardinality(DOMAIN recv))]

\* what the normal exchange hands over for recv: the tokens grouped by
\* expert, the expert of every row and the segment bounds
NormalDispatch(recv) ==
    [hidden_states |-> Tokens(recv),
     seg_indptr |-> [e \in 0 .. Cardinality(DOMAIN recv) |->
                        SumTo(recv, e - 1)],
     num_recv_tokens_per_expert |-> recv]

\* the rows <<e, r>> a masked grouped GEMM computes in a layout of m rows
\* per expert: the first counts[e] rows of every expert
MaskedRows(counts, m) ==
    {<<e, r>> \in (DOMAIN counts) \X (0 .. m - 1) : r < counts[e]}

\* the tokens in the rows of a layout
TokensIn(hidden_states, rows) ==
    {hidden_states[x[1]][x[2]] : x \in rows} \ {<<e, 0>> : e \in DOMAIN hidden_states}

\* forward_deepgemm_masked with the layout's row count given as the count
\* of every expert
ForwardDeepgemmMaskedAllRows(l, hidden_states_fp8, masked_m, expected_m) ==
    IF l.activation # "silu"
    THEN Raise(l, "AssertionError", <<>>)
    ELSE LET m == Cardinality(DOMAIN hidden_states_fp8[0])
             full == [e \in DOMAIN masked_m |-> m]
             gemm == Launch("grouped_gemm_nt_f8f8bf16_masked", full)
             act == Launch("silu_and_mul_masked_post_quant_fwd", full)
         IN Return(l, <<gemm, act, gemm>>,
                   [kind |-> "down_output",
                    rows |-> MaskedRows(full, m),
                    tokens |-> TokensIn(hidden_states_fp8,
                                        MaskedRows(full, m))])

\* DeepEPMoE.forward_deepgemm_masked
ForwardDeepgemmMasked(l, hidden_states_fp8, masked_m, expected_m) ==
    IF l.activation # "silu"
    THEN Raise(l, "AssertionError", <<>>)
    ELSE LET m == Cardinality(DOMAIN hidden_states_fp8[0])
             hint == Min(expected_m, m)
             gemm == Launch("grouped_gemm_nt_f8f8bf16_masked", masked_m)
                     @@ [expected_m |-> hint]
             act == Launch("silu_and_mul_masked_post_quant_fwd", masked_m)
             rows == MaskedRows(masked_m, m)
         IN Return(l, <<gemm, act, gemm>>,
                   [kind |-> "down_output", rows |-> rows,
                    tokens |-> TokensIn(hidden_states_fp8, rows)])

\* forward_deepgemm_contiguous that tests only for absent counts
ForwardDeepgemmContiguousNoZeroTest(l, hidden_states_fp8, num_recv_tokens_per_expert) ==
    IF l.activation # "silu"
    THEN Raise(l, "AssertionError", <<>>)
    ELSE IF ~num_recv_tokens_per_expert.present
    THEN Return(l, <<>>, [kind |-> "cast", tokens |-> hidden_states_fp8])
    ELSE LET counts == num_recv_tokens_per_expert.data
         IN Return(l, <<Launch("ep_scatter", counts),
                        Launch("grouped_gemm_nt_f8f8bf16_contig", counts),
                        Launch("silu_and_mul", counts),
                        Launch("sglang_per_token_group_quant_fp8", counts),
                        Launch("grouped_gemm_nt_f8f8bf16_contig", counts),
                        Launch("ep_gather", counts)>>,
                   [kind |-> "gather_out", tokens |-> hidden_states_fp8])

\* DeepEPMoE.forward_deepgemm_contiguous
ForwardDeepgemmContiguous(l, hidden_states_fp8, num_recv_tokens_per_expert) ==
    IF l.activation # "silu"
    THEN Raise(l, "AssertionError", <<>>)
    ELSE IF ~num_recv_tokens_per_expert.present
    THEN Return(l, <<>>, [kind |-> "cast", tokens |-> hidden_states_fp8])
    ELSE IF Sum(num_recv_tokens_per_expert.data) <= 0
    THEN Return(l, <<>>, [kind |-> "cast", tokens |-> hidden_states_fp8])
    ELSE LET counts == num_recv_tokens_per_expert.data
         IN Return(l, <<Launch("ep_scatter", counts),
                        Launch("grouped_gemm_nt_f8f8bf16_contig", counts),
                        Launch("silu_and_mul", counts),
                        Launch("sglang_per_token_group_quant_fp8", counts),
                        Launch("grouped_gemm_nt_f8f8bf16_contig", counts),
                        Launch("ep_gather", counts)>>,
                   [kind |-> "gather_out", tokens |-> hidden_states_fp8])

\* the per-expert row counts of segment bounds
SegmentSizes(seg_indptr) ==
    [e \in 0 .. Cardinality(DOMAIN seg_indptr) - 2 |->
        seg_indptr[e + 1] - seg_indptr[e]]

\* DeepEPMoE.forward_normal
DeepForwardNormal(l, hidden_states, seg_indptr) ==
    IF l.activation # "silu"
    THEN Raise(l, "AssertionError", <<>>)
    ELSE IF /\ l.activation_scheme = "dynamic" /\ ~l.use_block_quant
            /\ Cardinality(hidden_states) = 0
    \* torch.max of a tensor without elements
    THEN Raise(l, "RuntimeError", <<>>)
    \* line 983 assigns a tensor to the name of a parameter that
    \* create_weights registered: Module.__setattr__ accepts only a
    \* Parameter or None for it
    ELSE IF /\ l.activation_scheme = "dynamic" /\ ~l.use_block_quant
            /\ l.w13_input_scale = "loaded"
    THEN Raise(l, "TypeError", <<>>)
    ELSE LET rows == Cardinality(hidden_states)
             counts == SegmentSizes(seg_indptr)
             dynamic == l.activation_scheme = "dynamic" /\ ~l.use_block_quant
             l1 == IF dynamic
                   THEN [l EXCEPT !.w13_input_scale = "computed"] ELSE l
             l2 == IF l1.w2_input_scale = "None" /\ ~l.use_block_quant
                   THEN [l1 EXCEPT !.w2_input_scale = "ones"] ELSE l1
             gemm == IF rows > 0
                     THEN <<Launch("grouped_gemm_triton", counts)>>
                     ELSE <<>>
         \* block_shape=self.block_shape of the first grouped matmul
         IN IF rows > 0 /\ ~HasAttr(l, "block_shape")
            THEN Raise(l1, "AttributeError", <<>>)
            ELSE Return(l2,
                   gemm \o <<Launch("silu_and_mul_triton_kernel", counts)>>
                        \o gemm,
                   [kind |-> "down_output", tokens |-> hidden_states])

\* DeepEPMoE.forward_aiter
ForwardAiter(l, hidden_states, num_recv_tokens_per_expert) ==
    IF Cardinality(hidden_states) = 0
    THEN Return(l, <<>>, [kind |-> "hidden_states", tokens |-> hidden_states])
    \* w1_scale=self.w13_weight_scale_inv
    ELSE IF ~HasWeightScaleInv(l)
    THEN Raise(l, "AttributeError", <<>>)
    ELSE Return(l, <<Launch("fused_moe", num_recv_tokens_per_expert)
                       @@ [activation |-> IF l.activation = "silu"
                                          THEN "Silu" ELSE "Gelu"]>>,
                [kind |-> "fused_moe", tokens |-> hidden_states])

\* the pipeline DeepEPMoE.forward selects, with the two backends of the
\* normal mode exchanged
SelectPipelineSwapped(use_aiter, resolved_deepep_mode, deepgemm) ==
    IF use_aiter THEN "forward_aiter"
    ELSE IF resolved_deepep_mode = "normal"
    THEN IF deepgemm THEN "forward_normal" ELSE "forward_deepgemm_contiguous"
    ELSE IF resolved_deepep_mode = "low_latency"
    THEN "forward_deepgemm_masked"
    ELSE "ValueError"

\* the pipeline DeepEPMoE.forward selects, lines 943-959
SelectPipeline(use_aiter, resolved_deepep_mode, deepgemm) ==
    IF use_aiter THEN "forward_aiter"
    ELSE IF resolved_deepep_mode = "normal"
    THEN IF deepgemm THEN "forward_deepgemm_contiguous" ELSE "forward_normal"
    ELSE IF resolved_deepep_mode = "low_latency"
    THEN "forward_deepgemm_masked"
    ELSE "ValueError"

\* DeepEPMoE.forward on what the exchange delivered for recv
DeepEPForward(e, l, recv, counts_given, is_extend_in_batch) ==
    LET pipeline == SelectPipeline(e.use_aiter,
                        Resolve(l.deepep_mode, is_extend_in_batch),
                        e.ENABLE_JIT_DEEPGEMM)
        normal == NormalDispatch(recv)
        masked == LowLatencyDispatch(recv, Capacity)
        r == IF pipeline = "forward_aiter"
             THEN ForwardAiter(l, normal.hidden_states, recv)
             ELSE IF pipeline = "forward_deepgemm_contiguous"
             THEN ForwardDeepgemmContiguous(l, normal.hidden_states,
                      IF counts_given THEN Some(recv) ELSE None)
             ELSE IF pipeline = "forward_normal"
             THEN DeepForwardNormal(l, normal.hidden_states,
                                    normal.seg_indptr)
             ELSE IF pipeline = "forward_deepgemm_masked"
             THEN ForwardDeepgemmMasked(l, masked.hidden_states,
                                        masked.masked_m, masked.expected_m)
             ELSE Raise(l, "ValueError", <<>>)
    IN r @@ [pipeline |-> pipeline]

\* the (num_experts, tp_size, tp_rank) of the DeepEPMoE layer
DeepWorld == <<4, 2, 1>>

InitDeepEP ==
    /\ env \in [use_aiter : BOOLEAN, ENABLE_JIT_DEEPGEMM : BOOLEAN,
                quant_config : DeepQuantConfigs, activation : Activations,
                deepep_mode : DeepEPModes]
    /\ dlayer = NotBuilt
    /\ call = [op |-> "none"]
    /\ IdlePartition /\ IdleLoad /\ IdleDense /\ IdleRoute

\* the model constructs its DeepEPMoE layer
DeepConstruct ==
    /\ dlayer.status = "absent"
    /\ dlayer' = DeepEPMoEInit(env, DeepWorld[1], DeepWorld[2], DeepWorld[3],
                               env.quant_config, env.activation,
                               env.deepep_mode)
    /\ UNCHANGED <<world, layers, layer, params, load, loaded, env, call,
                   elayer, fwd,
                   route>>

\* one forward call
DeepForward(recv, counts_given, is_extend_in_batch) ==
    /\ dlayer.status = "ok"
    \* absent counts stand for "no tokens"
    /\ ~counts_given => Sum(recv) = 0
    /\ LET r == DeepEPForward(env, dlayer.self, recv, counts_given,
                              is_extend_in_batch)
       IN /\ dlayer' = [dlayer EXCEPT !.self = r.self]
          /\ call' = [op |-> "forward", recv |-> recv,
                      counts_given |-> counts_given,
                      is_extend_in_batch |-> is_extend_in_batch,
                      pipeline |-> r.pipeline, outcome |-> r.outcome,
                      error |-> r.error, stages |-> r.stages,
                      output |-> r.output]
    /\ UNCHANGED <<world, layers, layer, params, load, loaded, env, elayer,
                   fwd,
                   route>>

NextDeepEP ==
    \/ DeepConstruct
    \/ \E recv \in [0 .. (DeepWorld[1] \div DeepWorld[2]) - 1 -> 0 .. MaxRecv],
          counts_given \in BOOLEAN, is_extend_in_batch \in BOOLEAN :
          DeepForward(recv, counts_given, is_extend_in_batch)

SpecDeepEP == InitDeepEP /\ [][NextDeepEP]_vars

(***************************************************************************)
(* 4. EPMoE.forward: two calls on one layer, interleaved statement by      *)
(* statement.  A call's input is the row count of hidden_states and its    *)
(* largest value.  A scale is [kind, max, shape]: where it comes from, the *)
(* largest value it was computed from and its length.  A call records the  *)
(* kernels it issued with the layer-held scale each one was handed.        *)
(***************************************************************************)
\* most rows of hidden_states in one call
MaxTokens == 2
\* the largest values hidden_states may hold: 1 .. MaxAbs
MaxAbs == 2
\* experts selected per token
TopK == 2

\* the (num_experts, tp_size, tp_rank) of the EPMoE layer
DenseWorld == <<4, 2, 1>>

Scale(kind, max, shape) == [kind |-> kind, max |-> max, shape |-> shape]

\* EPMoE.__init__: the fields that forward reads and writes; of the pairs
\* w13_weight_fp8 and w2_weight_fp8 the scale is kept
EPMoEDenseInit(num_experts, tp_size, tp_rank, quant_config, activation, use_per_token_if_dynamic) ==
    LET q == QuantFields(quant_config)
        weight_scale == IF q.use_block_quant THEN "weight_scale_inv"
                        ELSE "weight_scale"
    IN IF ~PartitionAssert(num_experts, tp_size)
       THEN Failed("AssertionError")
       ELSE Built(PartitionOf(num_experts, tp_size, tp_rank) @@ q
                  @@ [top_k |-> TopK,
                      activation |-> activation,
                      use_per_token_if_dynamic |-> use_per_token_if_dynamic,
                      w13_input_scale |->
                          Scale(InitialInputScale(quant_config), 0, 0),
                      w2_input_scale |->
                          Scale(InitialInputScale(quant_config), 0, 0),
                      grouped_gemm_runner |-> "None",
                      w13_weight_fp8 |-> Scale(weight_scale, 0, 0),
                      w2_weight_fp8 |-> Scale(weight_scale, 0, 0)])

\* the inputs of a forward call
DenseInputs == [rows : 0 .. MaxTokens, max : 1 .. MaxAbs]

\* a call that has not been issued, and one issued with input x; scale is
\* the call's local tensor of lines 542-551
NoCall == [pc |-> "none"]
Issued(x) == [pc |-> "forward", x |-> x, kernels |-> <<>>,
              outcome |-> "running", error |-> "",
              scale |-> Scale("None", 0, 0)]

\* one statement of a call f on the layer l: the layer and the call after
\* it
After(l, f) == [self |-> l, call |-> f]
Goto(l, f, pc) == After(l, [f EXCEPT !.pc = pc])
Issue(l, f, kernel, arg, pc) ==
    After(l, [f EXCEPT !.pc = pc,
                       !.kernels = Append(@, [kernel |-> kernel,
                                              arg |-> arg])])
DenseReturn(l, f) == After(l, [f EXCEPT !.pc = "done",
                                        !.outcome = "returned"])
DenseRaise(l, f, error) == After(l, [f EXCEPT !.pc = "done",
                                              !.outcome = "raised",
                                              !.error = error])

\* the activation scheme that recomputes the input scales in every call
Dynamic(l) == l.activation_scheme = "dynamic" /\ ~l.use_block_quant

\* EPMoE.forward_deepgemm, statement by statement
ForwardDeepgemmStep(l, f) ==
    IF f.pc = "w13_weight_fp8"
    THEN IF ~l.use_block_quant
         THEN Goto([l EXCEPT !.w13_weight_fp8 = Scale("repeated", 0, 0)],
                   f, "w2_weight_fp8")
         ELSE Goto(l, f, "deepgemm_gemm0")
    ELSE IF f.pc = "w2_weight_fp8"
    THEN Goto([l EXCEPT !.w2_weight_fp8 = Scale("repeated", 0, 0)],
              f, "deepgemm_gemm0")
    ELSE IF f.pc = "deepgemm_gemm0"
    THEN Issue(l, f, "grouped_gemm_nt_f8f8bf16_masked", l.w13_weight_fp8,
               "deepgemm_gemm1")
    ELSE LET r == Issue(l, f, "grouped_gemm_nt_f8f8bf16_masked",
                        l.w2_weight_fp8, "done")
         IN DenseReturn(l, r.call)

\* EPMoE.forward_normal, statement by statement, from the computation of
\* the gate/up input scale on
ForwardNormalStep(l, f) ==
    IF f.pc = "w13_input_scale"
    THEN IF ~Dynamic(l) THEN Goto(l, f, "pre_reorder")
         ELSE IF l.use_per_token_if_dynamic
         THEN Goto([l EXCEPT !.w13_input_scale =
                                 Scale("per_token", f.x.max, f.x.rows)],
                   f, "pre_reorder")
         \* torch.max of a tensor without elements
         ELSE IF f.x.rows = 0 THEN DenseRaise(l, f, "RuntimeError")
         ELSE Goto([l EXCEPT !.w13_input_scale =
                                 Scale("per_tensor", f.x.max,
                                       l.num_experts_per_partition)],
                   f, "pre_reorder")
    ELSE IF f.pc = "pre_reorder"
    THEN Issue(l, f, "pre_reorder_triton_kernel", l.w13_input_scale,
               "expand")
    ELSE IF f.pc = "expand"
    THEN IF ~(Dynamic(l) /\ l.use_per_token_if_dynamic)
         THEN Goto(l, f, "gemm0")
         \* expand(rows, top_k) of a tensor of another length than rows or 1
         ELSE IF l.w13_input_scale.shape \notin {f.x.rows, 1}
         THEN DenseRaise(l, f, "RuntimeError")
         \* lines 542-551 read the layer's scale into the local one
         ELSE Goto(l, [f EXCEPT !.scale =
                                   Scale("per_token", l.w13_input_scale.max,
                                         f.x.rows * l.top_k)],
                   "expand_store")
    \* line 552 stores the local scale in the layer
    ELSE IF f.pc = "expand_store"
    THEN Goto([l EXCEPT !.w13_input_scale = f.scale], f, "gemm0")
    ELSE IF f.pc = "gemm0"
    THEN Issue(l, f, "grouped_gemm_runner", l.w13_input_scale, "act_scale")
    ELSE IF f.pc = "act_scale"
    THEN IF Dynamic(l)
         THEN Goto([l EXCEPT !.w2_input_scale = Scale("None", 0, 0)],
                   f, "act")
         ELSE Goto(l, f, "act")
    ELSE IF f.pc = "act"
    THEN IF l.activation = "silu"
         THEN Issue(l, f, "silu_and_mul_triton_kernel", l.w2_input_scale,
                    "w2_input_scale")
         ELSE IF l.activation = "gelu"
         THEN Issue(l, f, "gelu_and_mul_triton_kernel", l.w2_input_scale,
                    "w2_input_scale")
         ELSE DenseRaise(l, f, "ValueError")
    ELSE IF f.pc = "w2_input_scale"
    THEN IF ~Dynamic(l) THEN Goto(l, f, "gemm1")
         ELSE IF l.use_per_token_if_dynamic
         THEN Goto([l EXCEPT !.w2_input_scale =
                                 Scale("per_token", f.x.max,
                                       f.x.rows * l.top_k)],
                   f, "gemm1")
         ELSE Goto([l EXCEPT !.w2_input_scale =
                                 Scale("ones", 0,
                                       l.num_experts_per_partition)],
                   f, "gemm1")
    ELSE LET r == Issue(l, f, "grouped_gemm_runner", l.w2_input_scale,
                        "done")
         IN DenseReturn(l, r.call)

\* EPMoE.forward: the choice of the pipeline and the pipeline's statements
\* before the first one that reads or writes a scale of the layer
ForwardEntry(e, l, f) ==
    IF e.ENABLE_JIT_DEEPGEMM /\ l.use_fp8_w8a8
    THEN IF l.activation # "silu"
         THEN DenseRaise(l, f, "AssertionError")
         ELSE Goto(l, f, "w13_weight_fp8")
    ELSE LET l1 == [l EXCEPT !.grouped_gemm_runner = "GroupedGemmRunner"]
         IN IF l.use_w4afp8
            THEN DenseReturn(l1, Issue(l1, f, "cutlass_w4a8_moe",
                                       l1.w13_input_scale, "done").call)
            ELSE Goto(l1, f, "w13_input_scale")

DeepgemmPcs == {"w13_weight_fp8", "w2_weight_fp8", "deepgemm_gemm0",
                "deepgemm_gemm1"}

\* the next statement of call f
ForwardStep(e, l, f) ==
    IF f.pc = "forward" THEN ForwardEntry(e, l, f)
    ELSE IF f.pc \in DeepgemmPcs THEN ForwardDeepgemmStep(l, f)
    ELSE ForwardNormalStep(l, f)

RECURSIVE ForwardAlone(_, _, _)
\* call f run to its end with no other call on the layer
ForwardAlone(e, l, f) ==
    IF f.pc = "done" THEN After(l, f)
    ELSE LET r == ForwardStep(e, l, f) IN ForwardAlone(e, r.self, r.call)

\* the calls made on the layer
Calls == {1, 2}

InitDense ==
    /\ env \in [ENABLE_JIT_DEEPGEMM : BOOLEAN, quant_config : DeepQuantConfigs,
                activation : Activations,
                use_per_token_if_dynamic : BOOLEAN]
    /\ elayer = NotBuilt
    /\ fwd = [c \in Calls |-> NoCall]
    /\ dlayer = NotBuilt
    /\ call = [op |-> "none"]
    /\ IdlePartition /\ IdleLoad /\ IdleRoute

\* the layer as constructed and loaded, before any forward call
DenseLayer ==
    EPMoEDenseInit(DenseWorld[1], DenseWorld[2], DenseWorld[3],
                   env.quant_config, env.activation,
                   env.use_per_token_if_dynamic)

DenseConstruct ==
    /\ elayer.status = "absent"
    /\ elayer' = DenseLayer
    /\ UNCHANGED <<world, layers, layer, params, load, loaded, env, dlayer,
                   call, fwd,
                   route>>

\* call c is issued with input x
DenseCall(c, x) ==
    /\ elayer.status = "ok"
    /\ fwd[c].pc = "none"
    /\ fwd' = [fwd EXCEPT ![c] = Issued(x)]
    /\ UNCHANGED <<world, layers, layer, params, load, loaded, env, dlayer,
                   call, elayer,
                   route>>

\* call c executes its next statement
DenseStep(c) ==
    /\ elayer.status = "ok"
    /\ fwd[c].pc \notin {"none", "done"}
    /\ LET r == ForwardStep(env, elayer.self, fwd[c])
       IN /\ elayer' = [elayer EXCEPT !.self = r.self]
          /\ fwd' = [fwd EXCEPT ![c] = r.call]
    /\ UNCHANGED <<world, layers, layer, params, load, loaded, env, dlayer,
                   call,
                   route>>

NextDense ==
    \/ DenseConstruct
    \/ \E c \in Calls, x \in DenseInputs : DenseCall(c, x)
    \/ \E c \in Calls : DenseStep(c)

SpecDense == InitDense /\ [][NextDense]_vars

(***************************************************************************)
(* 5. EPMoE.forward, the buffers: the routing of tokens to experts and     *)
(* back.  Token t is row t of hidden_states; slot t * top_k + k is the     *)
(* k-th expert chosen for token t.  A row of a buffer is the sequence of   *)
(* what produced it: <<t>> is token t, <<t, j>> is token t through the     *)
(* gate/up weight of local expert j, <<t, j, j2>> through the down weight  *)
(* of j2 as well; <<>> is a row that was never written.                    *)
(***************************************************************************)
\* most rows of hidden_states of a routed call
MaxRouteTokens == 2
\* the masked layout of the dense pipeline has a multiple of MBlock rows
MBlock == 2

\* t[lo:hi], with Python's clamping of the slice bounds
Slice(t, lo, hi) ==
    LET n == Cardinality(DOMAIN t)
        l == Min(Max(lo, 0), n)
        h == Max(Min(Max(hi, 0), n), l)
    IN [i \in 0 .. h - l - 1 |-> t[l + i]]

\* run_moe_ep_preproess: the stable sort of the slots by expert id, as
\* src2dst (slot -> position), the sorted ids and the prefix sums of the
\* per-expert counts
RunMoeEpPreprocess(topk_ids, num_experts) ==
    LET slots == DOMAIN topk_ids
        src2dst == [s \in slots |->
                       Cardinality({u \in slots : topk_ids[u] < topk_ids[s]})
                       + Cardinality({u \in slots : /\ topk_ids[u] = topk_ids[s]
                                                    /\ u < s})]
    IN [reorder_topk_ids |->
            [i \in slots |-> topk_ids[CHOOSE s \in slots : src2dst[s] = i]],
        src2dst |-> src2dst,
        seg_indptr |->
            [e \in 0 .. num_experts |->
                Cardinality({s \in slots : topk_ids[s] < e})]]

\* pre_reorder_triton_kernel: every slot of a local expert copies its
\* token to row src2dst[slot] of a buffer of `rows` rows
PreReorder(rows, src2dst, topk_ids, start_expert_id, end_expert_id, top_k) ==
    [r \in 0 .. rows - 1 |->
        LET from == {s \in DOMAIN topk_ids :
                        /\ start_expert_id <= topk_ids[s]
                        /\ topk_ids[s] <= end_expert_id
                        /\ src2dst[s] = r}
        IN IF from = {} THEN <<>>
           ELSE <<(CHOOSE s \in from : TRUE) \div top_k>>]

\* the grouped matmul over segments: row r of segment j is multiplied by
\* weight weight_indices[j]; a row in no segment is not written
GroupedGemm(a, batch_size, seg_indptr, weight_indices) ==
    [r \in DOMAIN a |->
        LET seg == {j \in 0 .. batch_size - 1 :
                       seg_indptr[j] <= r /\ r < seg_indptr[j + 1]}
        IN IF seg = {} THEN <<>>
           ELSE Append(a[r], weight_indices[CHOOSE j \in seg : TRUE])]

\* post_reorder_triton_kernel: the output row of token t is the sum over
\* its slots with a local expert of weight * down_output[src2dst - offset],
\* kept as the set of its terms <<k, weight, row>>
PostReorder(down_output, n_tokens, src2dst, topk_ids, topk_weights, start_expert_id, end_expert_id, top_k, offset) ==
    [t \in 0 .. n_tokens - 1 |->
        {<<k, topk_weights[t * top_k + k],
           down_output[src2dst[t * top_k + k] - offset]>> :
            k \in {j \in 0 .. top_k - 1 :
                      /\ start_expert_id <= topk_ids[t * top_k + j]
                      /\ topk_ids[t * top_k + j] <= end_expert_id}}]

\* moe_ep_deepgemm_preprocess: the masked layout [local expert][row] of
\* m_max rows, the slots of an expert in slot order, with the counts, the
\* average-count hint and src2dst = expert * m_max + row
MoeEpDeepgemmPreprocess(topk_ids, num_experts, n_tokens, top_k, start_expert_id, end_expert_id) ==
    LET slots == DOMAIN topk_ids
        m_max == CeilDiv(n_tokens, MBlock) * MBlock
        pos == [s \in slots |->
                   Cardinality({u \in slots : /\ topk_ids[u] = topk_ids[s]
                                              /\ u < s})]
    IN [m_max |-> m_max,
        masked_m |->
            [g \in 0 .. end_expert_id - start_expert_id |->
                Cardinality({s \in slots : topk_ids[s] = start_expert_id + g})],
        expected_m |-> CeilDiv(Cardinality(slots), num_experts),
        src2dst |-> [s \in slots |-> topk_ids[s] * m_max + pos[s]],
        gateup_input |->
            [g \in 0 .. end_expert_id - start_expert_id |->
                [r \in 0 .. m_max - 1 |->
                    LET from == {s \in slots :
                                    /\ topk_ids[s] = start_expert_id + g
                                    /\ pos[s] = r}
                    IN IF from = {} THEN <<>>
                       ELSE <<(CHOOSE s \in from : TRUE) \div top_k>>]]]

\* the masked grouped matmul: the first masked_m[g] rows of group g are
\* multiplied by weight g
MaskedGemm(a, masked_m) ==
    [g \in DOMAIN a |->
        [r \in DOMAIN a[g] |->
            IF r < masked_m[g] THEN Append(a[g][r], g) ELSE <<>>]]

\* a [group][row] buffer of m rows per group read as one run of rows
Flat(a, m) ==
    [i \in 0 .. Cardinality(DOMAIN a) * m - 1 |-> a[i \div m][i % m]]

\* forward_normal with the bounds of all experts given to the grouped
\* matmul, not those of the local ones
RouteForwardNormalAllBounds(l, n_tokens, topk_ids, topk_weights) ==
    LET pre == RunMoeEpPreprocess(topk_ids, l.num_experts)
        rows == n_tokens * l.top_k
        gateup_input == PreReorder(rows, pre.src2dst, topk_ids,
                                   l.start_expert_id, l.end_expert_id,
                                   l.top_k)
        seg_indptr_cur_rank == pre.seg_indptr
        weight_indices_cur_rank == Arange(l.num_experts_per_partition)
        gateup_output == GroupedGemm(gateup_input,
                                     l.num_experts_per_partition,
                                     seg_indptr_cur_rank,
                                     weight_indices_cur_rank)
        down_output == GroupedGemm(gateup_output,
                                   l.num_experts_per_partition,
                                   seg_indptr_cur_rank,
                                   weight_indices_cur_rank)
    IN [pipeline |-> "forward_normal",
        src2dst |-> pre.src2dst,
        seg_indptr |-> pre.seg_indptr,
        seg_indptr_cur_rank |-> seg_indptr_cur_rank,
        gateup_input |-> gateup_input,
        down_output |-> down_output,
        output |-> PostReorder(down_output, n_tokens, pre.src2dst, topk_ids,
                               topk_weights, l.start_expert_id,
                               l.end_expert_id, l.top_k, 0)]

\* EPMoE.forward_normal on (hidden_states of n_tokens rows, topk_output),
\* lines 496-682, with every buffer it fills
RouteForwardNormal(l, n_tokens, topk_ids, topk_weights) ==
    LET pre == RunMoeEpPreprocess(topk_ids, l.num_experts)
        rows == n_tokens * l.top_k
        gateup_input == PreReorder(rows, pre.src2dst, topk_ids,
                                   l.start_expert_id, l.end_expert_id,
                                   l.top_k)
        seg_indptr_cur_rank == Slice(pre.seg_indptr, l.start_expert_id,
                                     l.end_expert_id + 2)
        weight_indices_cur_rank == Arange(l.num_experts_per_partition)
        gateup_output == GroupedGemm(gateup_input,
                                     l.num_experts_per_partition,
                                     seg_indptr_cur_rank,
                                     weight_indices_cur_rank)
        down_output == GroupedGemm(gateup_output,
                                   l.num_experts_per_partition,
                                   seg_indptr_cur_rank,
                                   weight_indices_cur_rank)
    IN [pipeline |-> "forward_normal",
        src2dst |-> pre.src2dst,
        seg_indptr |-> pre.seg_indptr,
        seg_indptr_cur_rank |-> seg_indptr_cur_rank,
        gateup_input |-> gateup_input,
        down_output |-> down_output,
        output |-> PostReorder(down_output, n_tokens, pre.src2dst, topk_ids,
                               topk_weights, l.start_expert_id,
                               l.end_expert_id, l.top_k, 0)]

\* forward_deepgemm whose post-reorder skips the first local expert
RouteForwardDeepgemmSkipsFirst(l, n_tokens, topk_ids, topk_weights) ==
    LET pre == MoeEpDeepgemmPreprocess(topk_ids, l.num_experts, n_tokens,
                                       l.top_k, l.start_expert_id,
                                       l.end_expert_id)
        gateup_output == MaskedGemm(pre.gateup_input, pre.masked_m)
        down_output == MaskedGemm(gateup_output, pre.masked_m)
    IN [pipeline |-> "forward_deepgemm",
        src2dst |-> pre.src2dst,
        m_max |-> pre.m_max,
        masked_m |-> pre.masked_m,
        expected_m |-> pre.expected_m,
        gateup_input |-> pre.gateup_input,
        down_output |-> down_output,
        output |-> PostReorder(Flat(down_output, pre.m_max), n_tokens,
                               pre.src2dst, topk_ids, topk_weights,
                               l.start_expert_id + 1, l.end_expert_id,
                               l.top_k, pre.m_max * l.start_expert_id)]

\* EPMoE.forward_deepgemm on the same input, lines 343-435
RouteForwardDeepgemm(l, n_tokens, topk_ids, topk_weights) ==
    LET pre == MoeEpDeepgemmPreprocess(topk_ids, l.num_experts, n_tokens,
                                       l.top_k, l.start_expert_id,
                                       l.end_expert_id)
        gateup_output == MaskedGemm(pre.gateup_input, pre.masked_m)
        down_output == MaskedGemm(gateup_output, pre.masked_m)
    IN [pipeline |-> "forward_deepgemm",
        src2dst |-> pre.src2dst,
        m_max |-> pre.m_max,
        masked_m |-> pre.masked_m,
        expected_m |-> pre.expected_m,
        gateup_input |-> pre.gateup_input,
        down_output |-> down_output,
        output |-> PostReorder(Flat(down_output, pre.m_max), n_tokens,
                               pre.src2dst, topk_ids, topk_weights,
                               l.start_expert_id, l.end_expert_id, l.top_k,
                               pre.m_max * l.start_expert_id)]

\* EPMoE.forward_normal, lines 452-459: the local expert ids handed to
\* cutlass_w4a8_moe
LocalTopkIds(l, topk_ids) ==
    IF l.expert_map.present
    THEN [s \in DOMAIN topk_ids |->
             IF l.expert_map.data[topk_ids[s]] # l.num_experts
             THEN l.expert_map.data[topk_ids[s]]
             ELSE l.num_experts]
    ELSE topk_ids

\* EPMoE.forward choosing by the DeepGEMM flag alone
RouteForwardFlagOnly(e, l, n_tokens, topk_ids, topk_weights) ==
    IF e.ENABLE_JIT_DEEPGEMM
    THEN RouteForwardDeepgemm(l, n_tokens, topk_ids, topk_weights)
    ELSE RouteForwardNormal(l, n_tokens, topk_ids, topk_weights)

\* EPMoE.forward, lines 288-292
RouteForward(e, l, n_tokens, topk_ids, topk_weights) ==
    IF e.ENABLE_JIT_DEEPGEMM /\ l.use_fp8_w8a8
    THEN RouteForwardDeepgemm(l, n_tokens, topk_ids, topk_weights)
    ELSE RouteForwardNormal(l, n_tokens, topk_ids, topk_weights)

\* the (num_experts, tp_size, tp_rank) of the routed layers
RouteWorlds == {<<4, 2, 0>>, <<4, 2, 1>>, <<2, 1, 0>>}

\* the router's choices for n_tokens tokens: top_k distinct experts each
TopkIds(n_tokens, top_k, num_experts) ==
    {ids \in [0 .. n_tokens * top_k - 1 -> 0 .. num_experts - 1] :
        \A s, u \in 0 .. n_tokens * top_k - 1 :
            (s # u /\ s \div top_k = u \div top_k) => ids[s] # ids[u]}

\* the routing weights tried: all equal, or all different
TopkWeights(n_tokens, top_k) ==
    {[s \in 0 .. n_tokens * top_k - 1 |-> 1],
     [s \in 0 .. n_tokens * top_k - 1 |-> s + 1]}

InitRoute ==
    /\ env \in [ENABLE_JIT_DEEPGEMM : BOOLEAN,
                quant_config : {"none", "fp8", "fp8_block"},
                world : RouteWorlds]
    /\ elayer = NotBuilt
    /\ fwd = <<>>
    /\ route = [op |-> "none"]
    /\ dlayer = NotBuilt
    /\ call = [op |-> "none"]
    /\ IdlePartition /\ IdleLoad

RouteConstruct ==
    /\ elayer.status = "absent"
    /\ elayer' = EPMoEDenseInit(env.world[1], env.world[2], env.world[3],
                                env.quant_config, "silu", TRUE)
    /\ UNCHANGED <<world, layers, layer, params, load, loaded, env, dlayer,
                   call, fwd, route>>

\* one forward call on (hidden_states of n_tokens rows, topk_output): the
\* buffers it fills, and the layer with the fields the call wrote (the
\* runner of forward_normal, the repeated scales of forward_deepgemm)
RouteCall(n_tokens, topk_ids, topk_weights) ==
    /\ elayer.status = "ok"
    /\ route' = [op |-> "forward", n_tokens |-> n_tokens,
                 topk_ids |-> topk_ids, topk_weights |-> topk_weights]
                @@ RouteForward(env, elayer.self, n_tokens, topk_ids,
                                topk_weights)
    /\ elayer' = [elayer EXCEPT !.self =
                     ForwardAlone(env, elayer.self,
                                  Issued([rows |-> n_tokens,
                                          max |-> 1])).self]
    /\ UNCHANGED <<world, layers, layer, params, load, loaded, env, dlayer,
                   call, fwd>>

NextRoute ==
    \/ RouteConstruct
    \/ \E n_tokens \in 0 .. MaxRouteTokens :
          \E topk_ids \in TopkIds(n_tokens, TopK, env.world[1]),
             topk_weights \in TopkWeights(n_tokens, TopK) :
              RouteCall(n_tokens, topk_ids, topk_weights)

SpecRoute == InitRoute /\ [][NextRoute]_vars

(***************************************************************************)
(* 6. DeepEPMoE, the buffers: what each of the three layouts computes for  *)
(* the tokens the exchange delivered.  A row is <<token>> as delivered and *)
(* <<token, j, j2>> after the gate/up weight of local expert j and the     *)
(* down weight of j2.                                                      *)
(***************************************************************************)
\* what the normal exchange delivers as rows: the tokens in expert order
NormalRows(recv) ==
    [r \in 0 .. Sum(recv) - 1 |->
        LET e == CHOOSE x \in DOMAIN recv :
                     SumTo(recv, x - 1) <= r /\ r < SumTo(recv, x)
        IN <<<<e, r - SumTo(recv, e - 1) + 1>>>>]

\* ep_scatter: the rows in expert order and the expert of every row
EpScatter(recv) ==
    [input_tensor |-> NormalRows(recv),
     m_indices |-> [r \in 0 .. Sum(recv) - 1 |-> NormalRows(recv)[r][1][1]]]

\* the contiguous grouped matmul: row r is multiplied by weight m_indices[r]
ContigGemm(a, m_indices) == [r \in DOMAIN a |-> Append(a[r], m_indices[r])]

\* the rows of a buffer that were written
Written(a) == {a[r] : r \in DOMAIN a} \ {<<>>}

\* the two grouped matmuls of forward_normal given the weights of the
\* neighbouring expert
DeepNormalAppliedShifted(l, hidden_states, seg_indptr) ==
    LET n == l.num_experts_per_partition
        weight_indices_cur_rank == [j \in 0 .. n - 1 |-> (j + 1) % n]
        gateup_output == GroupedGemm(hidden_states, n, seg_indptr,
                                     weight_indices_cur_rank)
    IN Written(GroupedGemm(gateup_output, n, seg_indptr,
                           weight_indices_cur_rank))

\* DeepEPMoE.forward_normal, lines 984-1077: the rows of down_output
DeepNormalApplied(l, hidden_states, seg_indptr) ==
    LET n == l.num_experts_per_partition
        weight_indices_cur_rank == Arange(n)
        gateup_output == GroupedGemm(hidden_states, n, seg_indptr,
                                     weight_indices_cur_rank)
    IN Written(GroupedGemm(gateup_output, n, seg_indptr,
                           weight_indices_cur_rank))

\* DeepEPMoE.forward_deepgemm_contiguous, lines 1155-1223: the rows of
\* down_output
ContiguousApplied(l, recv) ==
    LET scattered == EpScatter(recv)
        gateup_output == ContigGemm(scattered.input_tensor,
                                    scattered.m_indices)
    IN Written(ContigGemm(gateup_output, scattered.m_indices))

\* DeepEPMoE.forward_deepgemm_masked, lines 1245-1313: the rows of
\* down_output that hold a token
MaskedApplied(l, hidden_states_fp8, masked_m) ==
    LET a == [g \in DOMAIN hidden_states_fp8 |->
                 [r \in DOMAIN hidden_states_fp8[g] |->
                     <<hidden_states_fp8[g][r]>>]]
        gateup_output == MaskedGemm(a, masked_m)
        down_output == MaskedGemm(gateup_output, masked_m)
    IN UNION {Written(down_output[g]) : g \in DOMAIN down_output}

(***************************************************************************)
(* 7. EPMoE.forward_deepgemm, the weight scales: a per-tensor scale is     *)
(* repeated into the grid of block scales handed to the masked grouped     *)
(* matmul.  A tensor is a function over 0..n-1 of numbers or of tensors.   *)
(***************************************************************************)
\* scale_block_size of forward_deepgemm
scale_block_size == 128
\* largest per-tensor weight scale of an expert
MaxScaleVal == 2

\* the intermediate_size and hidden_size of the layers tried
ScaleIntermediateSizes == {64, 128, 192, 256}
ScaleHiddenSizes == {128, 192}
\* weight_block_size of the block-quantized layers tried
ScaleBlockShape == <<128, 128>>
\* the (num_experts, tp_size, tp_rank) of the layer
ScaleWorld == <<4, 2, 1>>

\* t.unsqueeze(d), seen from dimension d: one element, t
Unsqueeze(t) == [i \in 0 .. 0 |-> t]

\* t.repeat_interleave(repeats, dim=d), seen from dimension d
RepeatInterleave(t, repeats) ==
    [i \in 0 .. Cardinality(DOMAIN t) * repeats - 1 |-> t[i \div repeats]]

\* scale.unsqueeze(1).repeat_interleave(n, dim=1)
\*      .unsqueeze(2).repeat_interleave(k, dim=2)
RepeatScale(scale, n, k) ==
    [e \in DOMAIN scale |->
        LET rows == RepeatInterleave(Unsqueeze(scale[e]), n)
        IN [i \in DOMAIN rows |-> RepeatInterleave(Unsqueeze(rows[i]), k)]]

\* the weight scales of a loaded layer: one number per local expert of a
\* per-tensor layer, a grid of block scales per local expert of a
\* block-quantized one, the grids of the `shards` projections of n rows
\* that the parameter merges one after the other
LoadedWeightScale(l, shards, n, k, scale) ==
    IF l.use_block_quant
    THEN [e \in DOMAIN scale |->
             [i \in 0 .. shards * CeilDiv(n, l.block_shape.data[1]) - 1 |->
                 [j \in 0 .. CeilDiv(k, l.block_shape.data[2]) - 1 |->
                     scale[e]]]]
    ELSE scale

\* EPMoE.__init__ and the loading of the weight scales; of the pairs
\* w13_weight_fp8 and w2_weight_fp8 the scale is kept
EPMoEScaleInit(num_experts, tp_size, tp_rank, quant_config, intermediate_size, hidden_size, w13_scale, w2_scale) ==
    IF ~PartitionAssert(num_experts, tp_size)
    THEN Failed("AssertionError")
    ELSE LET q == [QuantFields(quant_config) EXCEPT
                      !.block_shape = IF @.present
                                      THEN Some(ScaleBlockShape) ELSE @]
             w13 == LoadedWeightScale(q, 2, intermediate_size, hidden_size,
                                      w13_scale)
             w2 == LoadedWeightScale(q, 1, hidden_size, intermediate_size,
                                     w2_scale)
         IN Built(PartitionOf(num_experts, tp_size, tp_rank) @@ q
                  @@ [intermediate_size |-> intermediate_size,
                      hidden_size |-> hidden_size,
                      activation |-> "silu",
                      w13_weight_scale |-> w13,
                      w2_weight_scale |-> w2,
                      w13_weight_fp8 |-> w13,
                      w2_weight_fp8 |-> w2])

\* EPMoE.forward_deepgemm, lines 306-341, on hidden_states whose last
\* dimension is hidden
ForwardDeepgemmScales(l, hidden) ==
    IF ~l.use_block_quant
    THEN LET w13_weight_scale_n ==
                 2 * ((l.intermediate_size + scale_block_size - 1)
                         \div scale_block_size)
             w13_weight_scale_k ==
                 (hidden + scale_block_size - 1) \div scale_block_size
             w2_weight_scale_n ==
                 (hidden + scale_block_size - 1) \div scale_block_size
             w2_weight_scale_k ==
                 (l.intermediate_size + scale_block_size - 1)
                     \div scale_block_size
         IN [l EXCEPT
                !.w13_weight_fp8 = RepeatScale(l.w13_weight_scale,
                                       w13_weight_scale_n, w13_weight_scale_k),
                !.w2_weight_fp8 = RepeatScale(l.w2_weight_scale,
                                      w2_weight_scale_n, w2_weight_scale_k)]
    ELSE l

InitScale ==
    /\ env \in [ENABLE_JIT_DEEPGEMM : {TRUE},
                quant_config : {"fp8", "fp8_block"},
                intermediate_size : ScaleIntermediateSizes,
                hidden_size : ScaleHiddenSizes,
                w13_scale : [0 .. (ScaleWorld[1] \div ScaleWorld[2]) - 1
                                -> 1 .. MaxScaleVal],
                w2_scale : [0 .. (ScaleWorld[1] \div ScaleWorld[2]) - 1
                               -> 1 .. MaxScaleVal]]
    /\ elayer = NotBuilt
    /\ fwd = <<>>
    /\ route = [op |-> "none"]
    /\ dlayer = NotBuilt
    /\ call = [op |-> "none"]
    /\ IdlePartition /\ IdleLoad

ScaleConstruct ==
    /\ elayer.status = "absent"
    /\ elayer' = EPMoEScaleInit(ScaleWorld[1], ScaleWorld[2], ScaleWorld[3],
                                env.quant_config, env.intermediate_size,
                                env.hidden_size, env.w13_scale, env.w2_scale)
    /\ UNCHANGED <<world, layers, layer, params, load, loaded, env, dlayer,
                   call, fwd, route>>

\* a forward call that EPMoE.forward hands to forward_deepgemm, up to the
\* two grouped matmuls and the scales they are given
ScaleForward ==
    /\ elayer.status = "ok"
    /\ env.ENABLE_JIT_DEEPGEMM /\ elayer.self.use_fp8_w8a8
    /\ route.op = "none"
    /\ LET l == ForwardDeepgemmScales(elayer.self, elayer.self.hidden_size)
       IN /\ elayer' = [elayer EXCEPT !.self = l]
          /\ route' = [op |-> "forward_deepgemm",
                       gemm0_scale |-> l.w13_weight_fp8,
                       gemm1_scale |-> l.w2_weight_fp8]
    /\ UNCHANGED <<world, layers, layer, params, load, loaded, env, dlayer,
                   call, fwd>>

NextScale ==
    \/ ScaleConstruct
    \/ ScaleForward

SpecScale == InitScale /\ [][NextScale]_vars

(***************************************************************************)
(* 8. The forward pipelines, statement by statement: the buffers each      *)
(* statement reads, the kernels it issues and the buffers it releases.     *)
(* A pipeline is the sequence of its statements for one configuration; a   *)
(* call executes it from the first statement on.                           *)
(***************************************************************************)
\* the names of the tensors a pipeline holds
BufferNames == {"hidden_states", "hidden_states_fp8", "gateup_input",
                "gateup_input_fp8", "input_tensor", "gateup_output",
                "down_input", "down_input_scale", "down_input_fp8",
                "down_output", "output", "gather_out"}

\* most rows a call of this part is given
MaxBufRows == 1

\* x = torch.empty(...), or another binding of the name x that reads reads
Alloc(line, x, reads) ==
    [line |-> line, kind |-> "bind", stage |-> "", reads |-> reads,
     writes |-> {x}, frees |-> {}, error |-> ""]
\* a kernel of the stage, reading reads and filling writes
Kernel(line, stage, reads, writes) ==
    [line |-> line, kind |-> "kernel", stage |-> stage, reads |-> reads,
     writes |-> writes, frees |-> {}, error |-> ""]
\* dispose_tensor(x)
Dispose(line, x) ==
    [line |-> line, kind |-> "dispose", stage |-> "", reads |-> {},
     writes |-> {}, frees |-> {x}, error |-> ""]
\* del x, ...
Del(line, xs) ==
    [line |-> line, kind |-> "del", stage |-> "", reads |-> {},
     writes |-> {}, frees |-> xs, error |-> ""]
\* raise, or a failed assert
RaiseStmt(line, error) ==
    [line |-> line, kind |-> "raise", stage |-> "", reads |-> {},
     writes |-> {}, frees |-> {}, error |-> error]
\* return x
ReturnStmt(line, x) ==
    [line |-> line, kind |-> "return", stage |-> "", reads |-> {x},
     writes |-> {}, frees |-> {}, error |-> ""]

When(cond, stmts) == IF cond THEN stmts ELSE <<>>

\* forward_normal with gateup_output deleted before the activation
ProgForwardNormalEarlyDel(c) ==
    \* the fused path of a w4afp8 layer, lines 450-487
    When(c.w4afp8,
         <<Kernel(460, "fused", {"hidden_states"}, {"output"}),
           ReturnStmt(487, "output")>>)
    \o <<Alloc(500, "gateup_input", {"hidden_states"})>>
    \o When(c.dynamic /\ ~c.per_token /\ c.rows = 0,
            <<RaiseStmt(515, "RuntimeError")>>)
    \o When(c.dynamic,
            <<Kernel(511, "", {"hidden_states"}, {})>>)
    \o <<Kernel(522, "permute", {"hidden_states"}, {"gateup_input"}),
         Dispose(535, "hidden_states"),
         Kernel(562, "gateup", {"gateup_input"}, {"gateup_output"}),
         Del(580, {"gateup_input"}),
         Alloc(585, "down_input", {"gateup_output"}),
         Del(627, {"gateup_output"})>>
    \o (IF c.activation \in {"silu", "gelu"}
        THEN <<Kernel(603, "act", {"gateup_output"}, {"down_input"})>>
        ELSE <<RaiseStmt(626, "ValueError")>>)
    \o When(c.dynamic /\ c.per_token,
            <<Kernel(631, "act", {"down_input"}, {"down_input"})>>)
    \o <<Alloc(640, "down_output", {"down_input"}),
         Kernel(646, "down", {"down_input"}, {"down_output"}),
         Del(663, {"down_input"}),
         Alloc(666, "output", {}),
         Kernel(669, "unpermute", {"down_output"}, {"output"}),
         ReturnStmt(682, "output")>>

\* EPMoE.forward_normal, lines 450-682
ProgForwardNormal(c) ==
    \* the fused path of a w4afp8 layer, lines 450-487
    When(c.w4afp8,
         <<Kernel(460, "fused", {"hidden_states"}, {"output"}),
           ReturnStmt(487, "output")>>)
    \o <<Alloc(500, "gateup_input", {"hidden_states"})>>
    \o When(c.dynamic /\ ~c.per_token /\ c.rows = 0,
            <<RaiseStmt(515, "RuntimeError")>>)
    \o When(c.dynamic,
            <<Kernel(511, "", {"hidden_states"}, {})>>)
    \o <<Kernel(522, "permute", {"hidden_states"}, {"gateup_input"}),
         Dispose(535, "hidden_states"),
         Kernel(562, "gateup", {"gateup_input"}, {"gateup_output"}),
         Del(580, {"gateup_input"}),
         Alloc(585, "down_input", {"gateup_output"})>>
    \o (IF c.activation \in {"silu", "gelu"}
        THEN <<Kernel(603, "act", {"gateup_output"}, {"down_input"})>>
        ELSE <<RaiseStmt(626, "ValueError")>>)
    \o <<Del(627, {"gateup_output"})>>
    \o When(c.dynamic /\ c.per_token,
            <<Kernel(631, "act", {"down_input"}, {"down_input"})>>)
    \o <<Alloc(640, "down_output", {"down_input"}),
         Kernel(646, "down", {"down_input"}, {"down_output"}),
         Del(663, {"down_input"}),
         Alloc(666, "output", {}),
         Kernel(669, "unpermute", {"down_output"}, {"output"}),
         ReturnStmt(682, "output")>>

\* EPMoE.forward_deepgemm, lines 299-435
ProgForwardDeepgemm(c) ==
    When(c.activation # "silu", <<RaiseStmt(300, "AssertionError")>>)
    \o <<Kernel(345, "permute", {"hidden_states"}, {"gateup_input"}),
         Dispose(356, "hidden_states"),
         Alloc(359, "gateup_input_fp8", {"gateup_input"}),
         Alloc(365, "gateup_output", {"gateup_input_fp8"}),
         Kernel(368, "gateup", {"gateup_input_fp8"}, {"gateup_output"}),
         Del(371, {"gateup_input"}),
         Del(372, {"gateup_input_fp8"}),
         Alloc(375, "down_input", {"gateup_output"}),
         Alloc(385, "down_input_scale", {"gateup_output"}),
         Kernel(394, "act", {"gateup_output"},
                {"down_input", "down_input_scale"}),
         Del(401, {"gateup_output"}),
         Alloc(405, "down_input_fp8", {"down_input", "down_input_scale"}),
         Alloc(409, "down_output", {}),
         Kernel(412, "down", {"down_input_fp8"}, {"down_output"}),
         Del(415, {"down_input"}),
         Del(416, {"down_input_fp8"}),
         Alloc(419, "output", {}),
         Kernel(422, "unpermute", {"down_output"}, {"output"}),
         ReturnStmt(435, "output")>>

\* DeepEPMoE.forward_normal, lines 967-1078
ProgDeepForwardNormal(c) ==
    When(c.activation # "silu", <<RaiseStmt(971, "AssertionError")>>)
    \o When(c.dynamic /\ c.rows = 0, <<RaiseStmt(979, "RuntimeError")>>)
    \o When(c.dynamic, <<Kernel(979, "", {"hidden_states"}, {})>>)
    \* w13_input_scale of a w4afp8 layer is a registered parameter
    \o When(c.dynamic /\ c.w4afp8, <<RaiseStmt(983, "TypeError")>>)
    \o (IF c.rows > 0
        \* a w4afp8 layer has no attribute block_shape
        THEN IF c.w4afp8
             THEN <<RaiseStmt(1009, "AttributeError")>>
             ELSE <<Kernel(993, "gateup", {"hidden_states"},
                           {"gateup_output"})>>
        ELSE <<Alloc(1012, "gateup_output", {"hidden_states"})>>)
    \o <<Alloc(1020, "down_input", {"gateup_output"}),
         Kernel(1038, "act", {"gateup_output"}, {"down_input"}),
         Del(1051, {"gateup_output"}),
         Alloc(1054, "down_output", {"down_input"})>>
    \o When(c.rows > 0,
            <<Kernel(1061, "down", {"down_input"}, {"down_output"})>>)
    \o <<ReturnStmt(1078, "down_output")>>

\* DeepEPMoE.forward_deepgemm_contiguous, lines 1118-1233
ProgForwardDeepgemmContiguous(c) ==
    When(c.activation # "silu", <<RaiseStmt(1120, "AssertionError")>>)
    \o When(~c.counts_given, <<ReturnStmt(1122, "hidden_states_fp8")>>)
    \o When(c.rows <= 0, <<ReturnStmt(1125, "hidden_states_fp8")>>)
    \o <<Alloc(1134, "input_tensor", {"hidden_states_fp8"}),
         Kernel(1168, "permute", {"hidden_states_fp8"}, {"input_tensor"}),
         Dispose(1180, "hidden_states_fp8"),
         Alloc(1182, "gateup_output", {})>>
    \o When(~c.ue8m0, <<Alloc(1188, "input_tensor", {"input_tensor"})>>)
    \o <<Kernel(1189, "gateup", {"input_tensor"}, {"gateup_output"}),
         Del(1192, {"input_tensor"}),
         Alloc(1193, "down_input", {"gateup_output"}),
         Kernel(1201, "act", {"gateup_output"}, {"down_input"}),
         Del(1202, {"gateup_output"}),
         Alloc(1203, "down_output", {}),
         Kernel(1208, "act", {"down_input"},
                {"down_input_fp8", "down_input_scale"}),
         Del(1215, {"down_input"})>>
    \o When(~c.ue8m0,
            <<Alloc(1217, "down_input_scale", {"down_input_scale"})>>)
    \o <<Kernel(1218, "down", {"down_input_fp8", "down_input_scale"},
                {"down_output"}),
         Del(1224, {"down_input_fp8", "down_input_scale"}),
         Alloc(1226, "gather_out", {}),
         Kernel(1231, "unpermute", {"down_output"}, {"gather_out"}),
         ReturnStmt(1233, "gather_out")>>

\* DeepEPMoE.forward_deepgemm_masked, lines 1241-1315
ProgForwardDeepgemmMasked(c) ==
    When(c.activation # "silu", <<RaiseStmt(1242, "AssertionError")>>)
    \o <<Alloc(1248, "gateup_output", {"hidden_states_fp8"}),
         Kernel(1251, "gateup", {"hidden_states_fp8"}, {"gateup_output"}),
         Dispose(1259, "hidden_states_fp8"),
         Alloc(1262, "down_input", {"gateup_output"}),
         Alloc(1272, "down_input_scale", {"gateup_output"}),
         Kernel(1281, "act", {"gateup_output"},
                {"down_input", "down_input_scale"}),
         Del(1289, {"gateup_output"}),
         Alloc(1293, "down_input_fp8", {"down_input", "down_input_scale"}),
         Alloc(1303, "down_output", {"down_input"}),
         Kernel(1306, "down", {"down_input_fp8"}, {"down_output"}),
         ReturnStmt(1315, "down_output")>>

Pipelines == {"EPMoE.forward_normal", "EPMoE.forward_deepgemm",
              "DeepEPMoE.forward_normal",
              "DeepEPMoE.forward_deepgemm_contiguous",
              "DeepEPMoE.forward_deepgemm_masked"}

\* the statements of a pipeline under the configuration c
Program(c) ==
    IF c.pipeline = "EPMoE.forward_normal" THEN ProgForwardNormal(c)
    ELSE IF c.pipeline = "EPMoE.forward_deepgemm"
    THEN ProgForwardDeepgemm(c)
    ELSE IF c.pipeline = "DeepEPMoE.forward_normal"
    THEN ProgDeepForwardNormal(c)
    ELSE IF c.pipeline = "DeepEPMoE.forward_deepgemm_contiguous"
    THEN ProgForwardDeepgemmContiguous(c)
    ELSE ProgForwardDeepgemmMasked(c)

\* the input tensor of a pipeline
InputName(pipeline) ==
    IF pipeline \in {"DeepEPMoE.forward_deepgemm_contiguous",
                     "DeepEPMoE.forward_deepgemm_masked"}
    THEN "hidden_states_fp8" ELSE "hidden_states"

\* a call at its first statement: only the input is bound
Entered(c) ==
    [op |-> "run", pc |-> 1, outcome |-> "running", error |-> "",
     names |-> [b \in BufferNames |->
                   IF b = InputName(c.pipeline) THEN "live" ELSE "unbound"],
     stages |-> <<>>, stale |-> {}, last |-> 0]

\* one statement s of the call f: a read of a deleted or unbound name
\* raises, a read of a disposed tensor sees the empty tensor
Exec(f, s) ==
    LET unbound == {b \in s.reads : f.names[b] \in {"unbound", "deleted"}}
        disposed == {b \in s.reads : f.names[b] = "disposed"}
        seen == [f EXCEPT !.last = s.line,
                          !.stale = @ \cup {<<s.line, b>> : b \in disposed}]
    IN IF unbound # {}
       THEN [seen EXCEPT !.pc = 0, !.outcome = "raised",
                         !.error = "UnboundLocalError"]
       ELSE IF s.kind = "raise"
       THEN [seen EXCEPT !.pc = 0, !.outcome = "raised", !.error = s.error]
       ELSE IF s.kind = "return"
       THEN [seen EXCEPT !.pc = 0, !.outcome = "returned"]
       ELSE [seen EXCEPT
                !.pc = @ + 1,
                !.stages = IF s.stage # "" THEN Append(@, s.stage) ELSE @,
                !.names = [b \in BufferNames |->
                              IF b \in s.frees
                              THEN (IF s.kind = "dispose" THEN "disposed"
                                    ELSE "deleted")
                              ELSE IF b \in s.writes THEN "live"
                              ELSE f.names[b]]]

\* the configurations of a call: a w4afp8 layer is not fp8, and reaches
\* the two pipelines that do not need the DeepGEMM backend
InitBuf ==
    /\ env \in {c \in [pipeline : Pipelines, dynamic : BOOLEAN,
                        per_token : BOOLEAN, w4afp8 : BOOLEAN,
                        activation : Activations, rows : 0 .. MaxBufRows,
                        counts_given : BOOLEAN, ue8m0 : BOOLEAN] :
                    c.w4afp8 => c.pipeline \in {"EPMoE.forward_normal",
                                                "DeepEPMoE.forward_normal"}}
    /\ call = [op |-> "none"]
    /\ dlayer = NotBuilt
    /\ elayer = NotBuilt
    /\ fwd = <<>>
    /\ route = [op |-> "none"]
    /\ IdlePartition /\ IdleLoad

\* the pipeline is called
BufCall ==
    /\ call.op = "none"
    /\ call' = Entered(env)
    /\ UNCHANGED <<world, layers, layer, params, load, loaded, env, dlayer,
                   elayer, fwd, route>>

\* the call executes its next statement
BufStep ==
    /\ call.op = "run"
    /\ call.pc \in DOMAIN Program(env)
    /\ call' = Exec(call, Program(env)[call.pc])
    /\ UNCHANGED <<world, layers, layer, params, load, loaded, env, dlayer,
                   elayer, fwd, route>>

NextBuf ==
    \/ BufCall
    \/ BufStep

SpecBuf == InitBuf /\ [][NextBuf]_vars

(***************************************************************************)
(* 9. Weight loading, the shards of one expert: the gate, up and down      *)
(* shard of one weight or weight scale of one logical expert are loaded    *)
(* into a freshly created layer, each once, in any order.                  *)
(***************************************************************************)
\* the value the checkpoint holds for the shard sh of expert g
ShardValue(sh, g) == 10 * (g + 1) + ShardNo(sh)

InitShards ==
    /\ \E w \in LoadWorlds, q \in QuantConfigs :
         \E r \in 0 .. w[2] - 1, loc \in Locations(w[1]) :
            /\ PartitionAssert(w[1], w[2])
            /\ layer = Built(LoadLayer(w[1], w[2], r, q, loc))
            /\ params = CreateWeights(layer.self, q)
    /\ \E weight_name \in {"weight", "weight_scale"},
          g \in DOMAIN layer.self.logical_to_all_physical :
            /\ <<"w13", weight_name>> \in DOMAIN params
            /\ <<"w2", weight_name>> \in DOMAIN params
            /\ load = [op |-> "shards", weight_name |-> weight_name,
                       expert_id |-> g, order |-> <<>>, raised |-> FALSE]
    /\ loaded = <<>>
    /\ IdlePartition /\ IdleDeepEP /\ IdleDense /\ IdleRoute

\* load_weights calls weight_loader for the shard sh of the expert
ShardLoad(sh) ==
    LET key == <<ParamPrefix(sh), load.weight_name>>
        r == WeightLoader(layer.self, params[key],
                          ShardValue(sh, load.expert_id), load.weight_name,
                          sh, load.expert_id)
    IN /\ load.op = "shards"
       /\ ~load.raised
       /\ \A i \in DOMAIN load.order : load.order[i] # sh
       /\ params' = [params EXCEPT ![key] = r.param]
       /\ load' = [load EXCEPT !.order = Append(@, sh),
                               !.raised = r.raised]
       /\ UNCHANGED <<world, layers, layer, loaded, env, dlayer, call,
                      elayer, fwd, route>>

NextShards == \E sh \in ShardIds : ShardLoad(sh)

SpecShards == InitShards /\ [][NextShards]_vars

(***************************************************************************)
(* 10. DeepEPMoE.forward_aiter, the expert ids: a tensor is a reference    *)
(* [storage, dtype] into a heap of storages, so that two tensors over one  *)
(* storage see each other's writes.                                        *)
(***************************************************************************)
\* most tokens delivered to a call of forward_aiter
MaxAiterTokens == 2

\* the dtypes of the expert ids handed to forward
IdDtypes == {"int32", "int64"}

\* tensor.to(dtype): the tensor itself when it has the dtype already, a
\* copy in a new storage otherwise
To(heap, t, dtype) ==
    IF t.dtype = dtype
    THEN [heap |-> heap, tensor |-> t]
    ELSE LET new == Cardinality(DOMAIN heap) + 1
         IN [heap |-> heap @@ (new :> heap[t.storage]),
             tensor |-> [storage |-> new, dtype |-> dtype]]

\* t[t == old] = v
MaskedFill(heap, t, old, v) ==
    [heap EXCEPT ![t.storage] =
        [i \in DOMAIN @ |-> IF @[i] = old THEN v ELSE @[i]]]

\* DeepEPMoE.forward_aiter, lines 1086-1109: the heap after the call and
\* the ids handed to fused_moe
ForwardAiterIds(l, heap, n_tokens, topk_idx) ==
    IF n_tokens = 0
    THEN [heap |-> heap, launched |-> FALSE, topk_ids |-> <<>>,
          expert_mask |-> l.expert_mask]
    ELSE LET c == To(heap, topk_idx, "int32")
             h == MaskedFill(c.heap, c.tensor, -1,
                             l.num_experts_per_partition)
         \* fused_moe is launched when its arguments can be read
         IN [heap |-> h, launched |-> HasWeightScaleInv(l),
             topk_ids |-> h[c.tensor.storage],
             expert_mask |-> l.expert_mask]

\* the (num_experts, tp_size, tp_rank) of the layer
AiterWorld == <<4, 2, 1>>

InitAiter ==
    /\ env \in [use_aiter : {TRUE}, ENABLE_JIT_DEEPGEMM : BOOLEAN,
                dtype : IdDtypes, n_tokens : 0 .. MaxAiterTokens]
    /\ dlayer = NotBuilt
    /\ call = [op |-> "none"]
    /\ elayer = NotBuilt
    /\ fwd = <<>>
    /\ route = [op |-> "none"]
    /\ IdlePartition /\ IdleLoad

AiterConstruct ==
    /\ dlayer.status = "absent"
    /\ dlayer' = DeepEPMoEInit(env, AiterWorld[1], AiterWorld[2],
                               AiterWorld[3], "fp8_block", "silu", "normal")
    /\ UNCHANGED <<world, layers, layer, params, load, loaded, env, call,
                   elayer, fwd, route>>

\* forward on the ids data that the exchange delivered in a tensor of
\* dtype env.dtype
AiterForward(data) ==
    /\ dlayer.status = "ok"
    /\ call.op = "none"
    /\ LET topk_idx == [storage |-> 1, dtype |-> env.dtype]
           r == ForwardAiterIds(dlayer.self, (1 :> data), env.n_tokens,
                                topk_idx)
       IN call' = [op |-> "forward_aiter", given |-> data,
                   topk_idx |-> r.heap[1], launched |-> r.launched,
                   topk_ids |-> r.topk_ids]
    /\ UNCHANGED <<world, layers, layer, params, load, loaded, env, dlayer,
                   elayer, fwd, route>>

NextAiter ==
    \/ AiterConstruct
    \/ \E data \in [0 .. env.n_tokens * TopK - 1 ->
                       -1 .. (AiterWorld[1] \div AiterWorld[2]) - 1] :
          AiterForward(data)

SpecAiter == InitAiter /\ [][NextAiter]_vars

(***************************************************************************)
(* Claims on the expert partition map.                                     *)
(***************************************************************************)
AllBuilt == \A r \in DOMAIN layers : layers[r].status = "ok"

\* C1: whenever the layers of a group are constructed, the ranges
\* [start_expert_id, end_expert_id] of two ranks never overlap, every range
\* lies in 0..num_experts-1 and has num_experts_per_partition ids, the last
\* rank holds what the other ranks leave, and once every rank is built each
\* global id is owned by exactly one rank; (8, 2, rank 1) gives 4..7, 4 ids.
C1_PartitionDisjointCover ==
    /\ \A r \in DOMAIN layers : layers[r].status = "ok" =>
          LET l == layers[r].self
          IN /\ 0 <= l.start_expert_id
             /\ l.end_expert_id <= world.num_experts - 1
             /\ l.end_expert_id - l.start_expert_id + 1
                    = l.num_experts_per_partition
             /\ (r = world.tp_size - 1 =>
                    l.num_experts_per_partition = world.num_experts
                      - (world.tp_size - 1)
                          * (world.num_experts \div world.tp_size))
    /\ \A r1, r2 \in DOMAIN layers :
          (r1 # r2 /\ layers[r1].status = "ok" /\ layers[r2].status = "ok")
          => \/ layers[r1].self.end_expert_id < layers[r2].self.start_expert_id
             \/ layers[r2].self.end_expert_id < layers[r1].self.start_expert_id
    /\ AllBuilt =>
          \A g \in 0 .. world.num_experts - 1 :
              Cardinality({r \in DOMAIN layers :
                              g \in OwnedIds(layers[r].self)}) = 1
    /\ (world = [num_experts |-> 8, tp_size |-> 2]
            /\ layers[1].status = "ok") =>
          /\ layers[1].self.start_expert_id = 4
          /\ layers[1].self.end_expert_id = 7
          /\ layers[1].self.num_experts_per_partition = 4

\* a group of 8 experts on 2 ranks with both layers constructed
C1_Witness ==
    /\ world = [num_experts |-> 8, tp_size |-> 2]
    /\ AllBuilt
    /\ layers[1].self.start_expert_id = 4

\* C2: a layer built with tp_size > 1 holds an expert_map of length
\* num_experts with expert_map[g] = g - start_expert_id on the owned range
\* and the sentinel num_experts elsewhere; its local values are exactly
\* 0..num_experts_per_partition-1.
C2_ExpertMap ==
    \A r \in DOMAIN layers :
        (layers[r].status = "ok" /\ world.tp_size > 1) =>
            LET l == layers[r].self
                m == l.expert_map
            IN /\ m.present
               /\ DOMAIN m.data = 0 .. world.num_experts - 1
               /\ \A g \in DOMAIN m.data :
                     m.data[g] = IF l.start_expert_id <= g
                                      /\ g <= l.end_expert_id
                                  THEN g - l.start_expert_id
                                  ELSE world.num_experts
               /\ {m.data[g] : g \in OwnedIds(l)}
                     = 0 .. l.num_experts_per_partition - 1
               /\ {m.data[g] : g \in DOMAIN m.data} \ {world.num_experts}
                     = 0 .. l.num_experts_per_partition - 1

\* a middle rank of a three-rank group has built its map
C2_Witness ==
    /\ world = [num_experts |-> 6, tp_size |-> 3]
    /\ layers[1].status = "ok"
    /\ layers[1].self.expert_map.present
    /\ layers[1].self.expert_map.data[2] = 0


(***************************************************************************)
(* Claims on weight loading.                                               *)
(***************************************************************************)
OtherGateUp(shard_id) == IF shard_id = "w1" THEN "w3" ELSE "w1"

\* C5: on a layer that is not 4-bit-weight, a load of the gate (w1) or up
\* (w3) input scale of a local expert whose value differs by more than the
\* tolerance from the value loaded before for the other of the two shards
\* raises and leaves the stored scale as it was.
C5_ScaleMismatchRaises ==
    (/\ load.op = "weight_loader"
     /\ HasInputScale(load.weight_name)
     /\ load.shard_id \in {"w1", "w3"}
     /\ ~layer.self.use_w4afp8) =>
        \A e \in LocalSlots(layer.self, load.expert_id) :
            LET other == loaded[e][OtherGateUp(load.shard_id)]
            IN (/\ other.present
                /\ Abs(other.data - load.loaded_weight) > Tolerance) =>
                   /\ load.raised
                   /\ params[<<"w13", "input_scale">>][e][0] = other.data

\* C6 as claimed: a weight_loader call with a shard id other than w1, w2,
\* w3 raises and writes nothing, whatever the expert id and weight name.
C6_BadShardAlwaysRaises ==
    (load.op = "weight_loader" /\ load.shard_id \notin ShardIds) =>
        load.raised /\ ~load.changed

\* C6 as amended: a call with a shard id other than w1, w2, w3 writes
\* nothing; it raises when the expert has a physical id in
\* [start_expert_id, end_expert_id] and returns without error when it has
\* none, whatever the weight name.
C6_BadShardRaisesWhenOwned ==
    /\ (load.op = "weight_loader" /\ load.shard_id \notin ShardIds) =>
          /\ ~load.changed
          /\ load.raised <=> LocalSlots(layer.self, load.expert_id) # {}
    /\ \A key \in DOMAIN params, weight_name \in WeightNames,
          shard_id \in BadShardIds,
          expert_id \in 0 .. layer.self.num_experts - 1 :
          LET r == WeightLoaderPhysical(layer.self, params[key], 500000,
                                        weight_name, shard_id, expert_id)
          IN /\ r.param = params[key]
             /\ r.raised <=> expert_id \in OwnedIds(layer.self)

\* a bad shard id was given for an expert owned by the layer
C6_Witness ==
    /\ load.op = "weight_loader"
    /\ load.shard_id \notin ShardIds
    /\ LocalSlots(layer.self, load.expert_id) # {}
    /\ load.raised

\* C7: a load for a physical expert id outside [start_expert_id,
\* end_expert_id] returns without error and changes no parameter of the
\* layer, whatever the parameter, name, shard id and value.
C7_NonLocalNoOp ==
    /\ (load.op = "weight_loader"
            /\ LocalSlots(layer.self, load.expert_id) = {}) =>
          ~load.raised /\ ~load.changed
    /\ \A key \in DOMAIN params, weight_name \in WeightNames,
          shard_id \in ShardIds \cup BadShardIds,
          expert_id \in 0 .. layer.self.num_experts - 1 :
          expert_id \notin OwnedIds(layer.self) =>
              WeightLoaderPhysical(layer.self, params[key], 500000,
                                   weight_name, shard_id, expert_id)
                  = Returned(params[key])

\* after a load into a local expert, a load of a weight was made for an
\* expert that another rank owns
C7_Witness ==
    /\ load.op = "weight_loader"
    /\ load.count = 2
    /\ load.shard_id = "w1"
    /\ load.weight_name = "weight"
    /\ LocalSlots(layer.self, load.expert_id) = {}
    /\ \E e \in DOMAIN params[<<"w13", "weight">>] :
          params[<<"w13", "weight">>][e][0] # 0


(***************************************************************************)
(* Claims on the DeepEPMoE forward dispatch.                               *)
(***************************************************************************)
\* the kernels issued by the last call
Kernels == {call.stages[i].kernel : i \in 1 .. Len(call.stages)}

\* the last call ran on a layer that passes the assertion on the
\* activation at the head of the pipelines other than forward_aiter
PassesAssertions == dlayer.self.activation = "silu"

\* the delivery mode of the last call: the layer's mode, auto being normal
\* for a batch with an extend and low_latency otherwise
ResolvedNormal ==
    \/ dlayer.self.deepep_mode = "normal"
    \/ dlayer.self.deepep_mode = "auto" /\ call.is_extend_in_batch
ResolvedLowLatency ==
    \/ dlayer.self.deepep_mode = "low_latency"
    \/ dlayer.self.deepep_mode = "auto" /\ ~call.is_extend_in_batch

\* C3: every forward call runs exactly one pipeline and returns or raises:
\* the fused path whenever the vendor path is on, issuing fused_moe alone
\* (no scatter, no gather); otherwise the contiguous pipeline in normal
\* mode with DeepGEMM, the segmented one in normal mode without, the
\* masked one in low_latency mode, each issuing only its own kernels; any
\* other resolved mode raises ValueError.
C3_OnePipeline ==
    call.op = "forward" =>
        /\ call.outcome \in {"returned", "raised"}
        /\ call.outcome = "returned" <=> call.output.kind # "none"
        /\ env.use_aiter =>
              /\ call.pipeline = "forward_aiter"
              /\ Kernels \subseteq {"fused_moe"}
        /\ (~env.use_aiter /\ ResolvedNormal /\ env.ENABLE_JIT_DEEPGEMM) =>
              /\ call.pipeline = "forward_deepgemm_contiguous"
              /\ Kernels \subseteq {"ep_scatter", "ep_gather", "silu_and_mul",
                                    "grouped_gemm_nt_f8f8bf16_contig",
                                    "sglang_per_token_group_quant_fp8"}
        /\ (~env.use_aiter /\ ResolvedNormal /\ ~env.ENABLE_JIT_DEEPGEMM) =>
              /\ call.pipeline = "forward_normal"
              /\ Kernels \subseteq {"grouped_gemm_triton",
                                    "silu_and_mul_triton_kernel"}
        /\ (~env.use_aiter /\ ResolvedLowLatency) =>
              /\ call.pipeline = "forward_deepgemm_masked"
              /\ Kernels \subseteq {"grouped_gemm_nt_f8f8bf16_masked",
                                    "silu_and_mul_masked_post_quant_fwd"}
        /\ (~env.use_aiter /\ ~ResolvedNormal /\ ~ResolvedLowLatency) =>
              /\ call.pipeline = "ValueError"
              /\ call.outcome = "raised"
        /\ call.pipeline = "ValueError" =>
              call.outcome = "raised" /\ call.error = "ValueError"

\* a decode batch on an auto-mode layer ran the masked pipeline
C3_Witness ==
    /\ call.op = "forward"
    /\ ~env.use_aiter
    /\ dlayer.self.deepep_mode = "auto"
    /\ ~call.is_extend_in_batch
    /\ call.pipeline = "forward_deepgemm_masked"
    /\ call.outcome = "returned"
    /\ Len(call.stages) = 3

\* C4: in the masked pipeline every kernel is given, for every expert,
\* the count min(received, m_max), never more than m_max; for an expert
\* that received more than m_max tokens the count is m_max and the output
\* holds its first m_max tokens and none of the excess; the call raises
\* only when the activation assertion fails, whatever the counts.
C4_MaskedCapped ==
    (call.op = "forward" /\ call.pipeline = "forward_deepgemm_masked") =>
        /\ PassesAssertions => call.outcome = "returned"
        /\ call.outcome = "returned" =>
              \A e \in DOMAIN call.recv :
                  /\ Len(call.stages) = 3
                  /\ \A i \in 1 .. Len(call.stages) :
                        /\ call.stages[i].counts[e] <= Capacity
                        /\ call.stages[i].counts[e]
                               = Min(call.recv[e], Capacity)
                  /\ call.recv[e] > Capacity =>
                        /\ \A i \in 1 .. Len(call.stages) :
                              call.stages[i].counts[e] = Capacity
                        /\ {t \in call.output.tokens : t[1] = e}
                               = {e} \X (1 .. Capacity)
                        /\ \A i \in Capacity + 1 .. call.recv[e] :
                              <<e, i>> \notin call.output.tokens

\* an expert received 6 tokens for a capacity of 4, another fewer than 4
C4_Witness ==
    /\ call.op = "forward"
    /\ call.pipeline = "forward_deepgemm_masked"
    /\ call.outcome = "returned"
    /\ call.recv[0] = Capacity + 2
    /\ call.recv[1] = 1
    /\ call.stages[1].counts[0] = Capacity
    /\ <<0, Capacity + 1>> \notin call.output.tokens

\* C9: in the contiguous pipeline a call whose received counts are absent
\* or sum to zero issues no kernel (no scatter, no grouped matmul, no
\* gather) and, on a layer that passes the entry assertions, returns the
\* received buffer cast to the output type.
C9_ContiguousEmpty ==
    (/\ call.op = "forward"
     /\ call.pipeline = "forward_deepgemm_contiguous"
     /\ (~call.counts_given \/ Sum(call.recv) = 0)) =>
        /\ call.stages = <<>>
        /\ PassesAssertions =>
              /\ call.outcome = "returned"
              /\ call.output.kind = "cast"
              /\ call.output.tokens = NormalDispatch(call.recv).hidden_states

\* the contiguous pipeline was given counts that are all zero
C9_Witness ==
    /\ call.op = "forward"
    /\ call.pipeline = "forward_deepgemm_contiguous"
    /\ call.counts_given
    /\ Sum(call.recv) = 0
    /\ call.outcome = "returned"

\* the last call had no token routed to this worker
ZeroTokens == call.op = "forward" /\ Sum(call.recv) = 0

\* C10: in every pipeline a call with no token routed to this worker, on
\* a layer that passes the pipeline's assertion on the activation, returns
\* an empty or passed-through result and issues no grouped matmul.
C10_ZeroTokensNoGemm ==
    (ZeroTokens /\ (PassesAssertions \/ call.pipeline = "forward_aiter")) =>
        /\ call.outcome = "returned"
        /\ call.output.tokens = {}
        /\ Kernels \cap GemmKernels = {}


(***************************************************************************)
(* Claims on the forward calls of one EPMoE layer.                         *)
(***************************************************************************)
\* the weight and scale state a layer holds
ScaleState(l) == <<l.w13_input_scale, l.w2_input_scale, l.w13_weight_fp8,
                   l.w2_weight_fp8>>

\* what a finished call gave: its outcome and the kernels it issued, each
\* with the scale it was handed
ResultOf(f) == <<f.outcome, f.error, f.kernels>>

\* C8: no forward call writes a weight or scale the layer holds, so the
\* layer holds what it held when it was loaded, and every finished call
\* has the result of the same call run alone on the loaded layer,
\* whatever the interleaving with the other call.
C8_ForwardWritesNothing ==
    elayer.status = "ok" =>
        /\ ScaleState(elayer.self) = ScaleState(DenseLayer.self)
        /\ \A c \in Calls :
              fwd[c].pc = "done" =>
                  ResultOf(fwd[c])
                      = ResultOf(ForwardAlone(env, DenseLayer.self,
                                              Issued(fwd[c].x)).call)


(***************************************************************************)
(* Claims on the routing of tokens to experts and back.                    *)
(***************************************************************************)
\* the last call ran the segmented pipeline
RoutedNormal == route.op = "forward" /\ route.pipeline = "forward_normal"

\* the slots of the last call, and those whose expert the layer owns
RouteSlots == DOMAIN route.topk_ids
LocalSlots2 == {s \in RouteSlots : route.topk_ids[s] \in OwnedIds(elayer.self)}

\* the sizes of the segments of bounds b, added up
SegmentTotal(b) == b[Cardinality(DOMAIN b) - 1] - b[0]

\* src2dst is a bijection on the slots: its inverse exists and undoes it
RoundTrip ==
    /\ {route.src2dst[s] : s \in RouteSlots} = RouteSlots
    /\ LET dst2src == [d \in RouteSlots |->
                          CHOOSE s \in RouteSlots : route.src2dst[s] = d]
       IN \A s \in RouteSlots : dst2src[route.src2dst[s]] = s

\* every slot of a local expert lands in the segment of that expert, and
\* the row it lands in holds its token
InOwnSegment ==
    \A s \in LocalSlots2 :
        LET j == route.topk_ids[s] - elayer.self.start_expert_id
        IN /\ route.seg_indptr_cur_rank[j] <= route.src2dst[s]
           /\ route.src2dst[s] < route.seg_indptr_cur_rank[j + 1]
           /\ route.gateup_input[route.src2dst[s]]
                  = <<s \div elayer.self.top_k>>

\* C11 as claimed: in the segmented dense pipeline the sizes of the
\* segments given to the grouped matmul add up to n_tokens * top_k, and
\* src2dst is a bijection that puts every slot in its expert's segment.
C11_SegmentsCoverAllSlots ==
    RoutedNormal =>
        /\ SegmentTotal(route.seg_indptr_cur_rank)
               = route.n_tokens * elayer.self.top_k
        /\ RoundTrip
        /\ InOwnSegment

\* C11 as amended: the sizes of the segments of all experts add up to
\* n_tokens * top_k; the bounds given to the grouped matmul are those of
\* the local experts, whose sizes add up to the number of slots routed to
\* a local expert; src2dst is a bijection on the slots whose inverse
\* restores the slot order, and every slot of a local expert lands in
\* that expert's segment.
C11_SegmentsCoverLocalSlots ==
    RoutedNormal =>
        /\ SegmentTotal(route.seg_indptr)
               = route.n_tokens * elayer.self.top_k
        /\ Cardinality(DOMAIN route.seg_indptr_cur_rank)
               = elayer.self.num_experts_per_partition + 1
        /\ SegmentTotal(route.seg_indptr_cur_rank) = Cardinality(LocalSlots2)
        /\ RoundTrip
        /\ InOwnSegment

\* a rank of two routed two tokens, one slot of them to the other rank
C11_Witness ==
    /\ RoutedNormal
    /\ elayer.self.tp_size = 2
    /\ route.n_tokens = 2
    /\ Cardinality(LocalSlots2) = 3
    /\ SegmentTotal(route.seg_indptr_cur_rank) = 3

\* the slots of token t whose expert the layer owns
LocalChoices(t) ==
    {k \in 0 .. elayer.self.top_k - 1 :
        route.topk_ids[t * elayer.self.top_k + k] \in OwnedIds(elayer.self)}

\* C12: in both dense pipelines the output row of every token is the sum,
\* over the token's slots whose expert is local, of the routing weight
\* times that expert's output for the token (gate/up then down weight of
\* that expert applied to that token): one term per such slot, none lost
\* to a later one.
C12_WeightedSum ==
    route.op = "forward" =>
        \A t \in 0 .. route.n_tokens - 1 :
            /\ route.output[t]
                 = {<<k, route.topk_weights[t * elayer.self.top_k + k],
                      LET j == route.topk_ids[t * elayer.self.top_k + k]
                                   - elayer.self.start_expert_id
                      IN <<t, j, j>>>> : k \in LocalChoices(t)}
            /\ Cardinality(route.output[t]) = Cardinality(LocalChoices(t))

\* a token chose two local experts with different weights, in the masked
\* pipeline of the second rank
C12_Witness ==
    /\ route.op = "forward"
    /\ route.pipeline = "forward_deepgemm"
    /\ elayer.self.tp_rank = 1
    /\ route.n_tokens = 2
    /\ Cardinality(LocalChoices(1)) = 2
    /\ Cardinality(route.output[1]) = 2
    /\ route.topk_weights[2] # route.topk_weights[3]


(***************************************************************************)
(* Claims on the three layouts of DeepEPMoE.                               *)
(***************************************************************************)
\* every token the exchange delivered, through both weights of its expert
EveryTokenByItsExpert(recv) == {<<t, t[1], t[1]>> : t \in Tokens(recv)}

\* C13: for one assignment of tokens to local experts in which no expert
\* gets more than the capacity, the segmented, the contiguous and the
\* masked layout compute the same rows: every delivered token through the
\* weights of its own expert, and nothing else; and the pipeline that ran
\* returned exactly those tokens.
C13_LayoutsAgree ==
    (/\ call.op = "forward"
     /\ \A e \in DOMAIN call.recv : call.recv[e] <= Capacity) =>
        LET l == dlayer.self
            normal == NormalDispatch(call.recv)
            masked == LowLatencyDispatch(call.recv, Capacity)
        IN /\ DeepNormalApplied(l, NormalRows(call.recv), normal.seg_indptr)
                  = EveryTokenByItsExpert(call.recv)
           /\ ContiguousApplied(l, normal.num_recv_tokens_per_expert)
                  = EveryTokenByItsExpert(call.recv)
           /\ MaskedApplied(l, masked.hidden_states, masked.masked_m)
                  = EveryTokenByItsExpert(call.recv)
           /\ (/\ call.outcome = "returned"
               /\ call.pipeline # "forward_aiter") =>
                  call.output.tokens = Tokens(call.recv)

\* both experts got tokens, one of them as many as the capacity, and the
\* masked pipeline returned them
C13_Witness ==
    /\ call.op = "forward"
    /\ call.pipeline = "forward_deepgemm_masked"
    /\ call.outcome = "returned"
    /\ call.recv[0] = Capacity
    /\ call.recv[1] = 2
    /\ <<<<1, 2>>, 1, 1>>
           \in MaskedApplied(dlayer.self,
                             LowLatencyDispatch(call.recv, Capacity).hidden_states,
                             LowLatencyDispatch(call.recv, Capacity).masked_m)


(***************************************************************************)
(* Claims on the physical slots of a logical expert.                       *)
(***************************************************************************)
\* the parameter the call in `load` was made on
LoadKey(ld) == <<ParamPrefix(ld.shard_id), ld.weight_name>>

\* C14: a call of weight_loader that returns has written the loaded value
\* into every local slot among the physical slots of the logical expert
\* (the whole slot for a down shard, rows of it for a gate or up shard,
\* every row it wrote holding the loaded value), and has left every other
\* slot and every other parameter as they were; a call that raises has
\* written nothing.
C14_EveryPhysicalSlot ==
    [][(load'.op = "weight_loader" /\ load' # load) =>
          LET key == LoadKey(load')
              slots == LocalSlots(layer.self, load'.expert_id)
              v == load'.loaded_weight
          IN /\ \A k \in DOMAIN params \ {key} : params'[k] = params[k]
             /\ load'.raised => params' = params
             /\ ~load'.raised =>
                  \A e \in DOMAIN params[key] :
                     IF e \in slots
                     THEN /\ \E r \in DOMAIN params[key][e] :
                                params'[key][e][r] = v
                          /\ \A r \in DOMAIN params[key][e] :
                                params'[key][e][r] \in {v, params[key][e][r]}
                          /\ load'.shard_id = "w2" =>
                                \A r \in DOMAIN params[key][e] :
                                   params'[key][e][r] = v
                          /\ \A e2 \in slots :
                                params'[key][e2] = params'[key][e]
                     ELSE params'[key][e] = params[key][e]]_vars

\* a down weight was loaded for a logical expert with two physical slots
\* on this worker, and both hold it
C14_Witness ==
    /\ load.op = "weight_loader"
    /\ ~load.raised
    /\ load.shard_id = "w2"
    /\ load.weight_name = "weight"
    /\ Cardinality(LocalSlots(layer.self, load.expert_id)) = 2
    /\ \A e \in LocalSlots(layer.self, load.expert_id) :
          params[LoadKey(load)][e][0] = load.loaded_weight


(***************************************************************************)
(* Claims on a layer that owns every expert.                               *)
(***************************************************************************)
\* C15: a layer built for a group of one rank has no expert map, as many
\* local experts as there are experts and the owned range 0 ..
\* num_experts - 1; weight loading writes the slot of global id g for
\* every g, and forward hands every global id on as the local id: the
\* local ids of the router's choices are the choices themselves and the
\* term of every slot is its token through the weights of slot
\* topk_ids[slot].
C15_SingleRankIdentity ==
    (elayer.status = "ok" /\ elayer.self.tp_size = 1) =>
        LET l == elayer.self @@ [intermediate_size |-> IntermediateSize]
            empty == Param(l.num_experts_per_partition, HiddenSize, 0)
        IN /\ ~l.expert_map.present
           /\ l.num_experts_per_partition = l.num_experts
           /\ l.start_expert_id = 0
           /\ l.end_expert_id = l.num_experts - 1
           /\ OwnedIds(l) = 0 .. l.num_experts - 1
           /\ \A g \in 0 .. l.num_experts - 1 :
                 WeightLoaderPhysical(l, empty, g + 1, "weight", "w2", g)
                     = Returned(AssignSlot(empty, g, g + 1))
           /\ route.op = "forward" =>
                 /\ LocalTopkIds(l, route.topk_ids) = route.topk_ids
                 /\ \A t \in 0 .. route.n_tokens - 1 :
                       route.output[t]
                         = {<<k, route.topk_weights[t * l.top_k + k],
                              <<t, route.topk_ids[t * l.top_k + k],
                                route.topk_ids[t * l.top_k + k]>>>> :
                               k \in 0 .. l.top_k - 1}

\* a single-rank layer routed two tokens to its two experts
C15_Witness ==
    /\ elayer.status = "ok"
    /\ elayer.self.tp_size = 1
    /\ route.op = "forward"
    /\ route.n_tokens = 2
    /\ \A t \in 0 .. 1 : Cardinality(route.output[t]) = 2


(***************************************************************************)
(* Claims on configuration errors.                                         *)
(***************************************************************************)
\* the number of elements of t[lo:hi] for a tensor of n elements
SliceLen(n, lo, hi) == Max(Min(Max(hi, 0), n) - Min(Max(lo, 0), n), 0)

\* the slice of the expert map a rank assigns to has as many elements as
\* the arange assigned to it
AssignmentFits(num_experts, tp_size, tp_rank) ==
    LET local == num_experts \div tp_size
        last == num_experts - tp_rank * local
    IN \/ tp_size = 1
       \/ /\ tp_rank < tp_size - 1
          /\ SliceLen(num_experts, tp_rank * local, (tp_rank + 1) * local)
                = local
       \/ /\ tp_rank = tp_size - 1
          /\ SliceLen(num_experts,
                      IF last = 0 THEN 0 ELSE num_experts - last, num_experts)
                = last

\* C16: the construction of a rank's layer fails exactly when
\* num_experts % tp_size # 0, with the AssertionError of line 177; for a
\* divisible pair every rank's construction succeeds, the slice
\* assignment of determine_expert_map fits and the rank owns
\* num_experts / tp_size experts.
C16_FailsIffNotDivisible ==
    \A r \in DOMAIN layers :
        layers[r].status # "absent" =>
            /\ layers[r].status = "error"
                  <=> world.num_experts % world.tp_size # 0
            /\ layers[r].status = "error"
                  => layers[r].error = "AssertionError"
            /\ layers[r].status = "ok" =>
                  /\ AssignmentFits(world.num_experts, world.tp_size, r)
                  /\ layers[r].self.num_experts_per_partition * world.tp_size
                        = world.num_experts

\* every rank of a group of three ranks over eight experts has failed
C16_Witness ==
    /\ world.num_experts = 8
    /\ world.tp_size = 3
    /\ \A r \in DOMAIN layers : layers[r].status = "error"


\* the layer of SpecDense is asked for DeepGEMM and is not fp8-quantized
DenseDeepgemmWithoutFp8 ==
    env.ENABLE_JIT_DEEPGEMM /\ ~QuantFields(env.quant_config).use_fp8_w8a8

\* C17 as stated: on any layer, DeepGEMM requested without fp8 fails the
\* construction, and no forward call of such a layer returns a result.
C17_BackendWithoutFp8Raises ==
    DenseDeepgemmWithoutFp8 =>
        /\ elayer.status # "absent" => elayer.status = "error"
        /\ \A c \in Calls : fwd[c].pc = "none"

\* C17: the construction of a DeepEPMoE layer raises AssertionError when
\* the layer is not fp8-quantized and DeepGEMM is enabled or the mode
\* enables low latency, so no forward call is made on it.  The dense
\* EPMoE layer does not raise: with DeepGEMM enabled and no fp8 it is
\* constructed, and its forward calls run forward_normal, never a
\* statement or a kernel of forward_deepgemm.
C17_DeepEPRaisesDenseFallsBack ==
    /\ \A e \in [use_aiter : BOOLEAN, ENABLE_JIT_DEEPGEMM : BOOLEAN],
          q \in DeepQuantConfigs, a \in Activations, m \in DeepEPModes :
          (~QuantFields(q).use_fp8_w8a8
             /\ (e.ENABLE_JIT_DEEPGEMM \/ EnableLowLatency(m)))
            => DeepEPMoEInit(e, DeepWorld[1], DeepWorld[2], DeepWorld[3],
                             q, a, m) = Failed("AssertionError")
    /\ DenseDeepgemmWithoutFp8 =>
          /\ elayer.status # "absent" => elayer.status = "ok"
          /\ \A c \in Calls :
                fwd[c].pc # "none" =>
                   /\ fwd[c].pc \notin DeepgemmPcs
                   /\ \A i \in DOMAIN fwd[c].kernels :
                         fwd[c].kernels[i].kernel
                            # "grouped_gemm_nt_f8f8bf16_masked"
                   /\ fwd[c].outcome = "raised" =>
                         /\ fwd[c].error = "ValueError"
                         /\ elayer.self.activation \notin {"silu", "gelu"}

\* an unquantized dense layer with DeepGEMM enabled returned a result
\* through the grouped gemm of forward_normal
C17_Witness ==
    /\ env.ENABLE_JIT_DEEPGEMM
    /\ env.quant_config = "none"
    /\ elayer.status = "ok"
    /\ fwd[1].pc = "done"
    /\ fwd[1].outcome = "returned"
    /\ \E i \in DOMAIN fwd[1].kernels :
          fwd[1].kernels[i].kernel = "grouped_gemm_runner"


\* C18: a forward call with tokens on a layer whose activation is neither
\* silu nor gelu raises in whichever pipeline DeepEPMoE.forward selects.
C18_UnsupportedActivationRaises ==
    (/\ dlayer.status = "ok"
     /\ dlayer.self.activation \notin {"silu", "gelu"}
     /\ call.op = "forward"
     /\ Sum(call.recv) > 0)
        => call.outcome = "raised"


(***************************************************************************)
(* Claims on the dense pipelines of EPMoE.forward.                         *)
(***************************************************************************)
\* C19: EPMoE.forward runs forward_deepgemm exactly when
\* ENABLE_JIT_DEEPGEMM is set and the layer has use_fp8_w8a8, and
\* forward_normal in every other case; the call leaves the buffers of the
\* pipeline it ran, and either pipeline, given the call's topk_ids and
\* topk_weights, combines the same weighted rows into every token.
C19_DeepgemmIffFlagAndFp8 ==
    route.op = "forward" =>
        LET l == elayer.self
            deepgemm == env.ENABLE_JIT_DEEPGEMM /\ l.use_fp8_w8a8
            normal == RouteForwardNormal(l, route.n_tokens, route.topk_ids,
                                         route.topk_weights)
            masked == RouteForwardDeepgemm(l, route.n_tokens, route.topk_ids,
                                           route.topk_weights)
        IN /\ route.pipeline = "forward_deepgemm" <=> deepgemm
           /\ route.pipeline = "forward_normal" <=> ~deepgemm
           /\ deepgemm => /\ "masked_m" \in DOMAIN route
                          /\ "seg_indptr" \notin DOMAIN route
           /\ ~deepgemm => /\ "seg_indptr" \in DOMAIN route
                           /\ "masked_m" \notin DOMAIN route
           /\ route.output \in {normal.output, masked.output}
           /\ normal.output = masked.output

\* an fp8 layer with DeepGEMM enabled ran the masked pipeline on two
\* tokens, one of them routed to a local expert
C19_Witness ==
    /\ env.ENABLE_JIT_DEEPGEMM
    /\ elayer.status = "ok"
    /\ elayer.self.use_fp8_w8a8
    /\ route.op = "forward"
    /\ route.pipeline = "forward_deepgemm"
    /\ route.n_tokens = 2
    /\ \E t \in 0 .. 1 : route.output[t] # {}


\* the shape <<rows, columns>> of one expert's grid of scales
GridShape(g) == <<Cardinality(DOMAIN g), Cardinality(DOMAIN g[0])>>

\* every entry of the grid g is v
GridIs(g, v) == \A i \in DOMAIN g : \A j \in DOMAIN g[i] : g[i][j] = v

\* C20: on a per-tensor-quantized layer, the scales forward_deepgemm hands
\* to a grouped matmul are, for each local expert e, a grid of shape
\* <<ceil(N/128), ceil(K/128)>> for the weight of shape [N, K]
\* (N = 2 * intermediate_size, K = hidden_size for gate/up; N =
\* hidden_size, K = intermediate_size for down), every entry of which is
\* the per-tensor scale of e.
C20_RepeatedScaleGrid ==
    (route.op = "forward_deepgemm" /\ ~elayer.self.use_block_quant) =>
        LET l == elayer.self
        IN \A e \in 0 .. l.num_experts_per_partition - 1 :
              /\ GridShape(route.gemm0_scale[e])
                    = <<CeilDiv(2 * l.intermediate_size, 128),
                        CeilDiv(l.hidden_size, 128)>>
              /\ GridIs(route.gemm0_scale[e], l.w13_weight_scale[e])
              /\ GridShape(route.gemm1_scale[e])
                    = <<CeilDiv(l.hidden_size, 128),
                        CeilDiv(l.intermediate_size, 128)>>
              /\ GridIs(route.gemm1_scale[e], l.w2_weight_scale[e])


(***************************************************************************)
(* Claims on the buffers of a pipeline.                                    *)
(***************************************************************************)
\* the place of a stage in the order permute, gate/up matmul, activation
\* (and quantization), down matmul, unpermute
StageRank(stage) ==
    IF stage = "permute" THEN 1
    ELSE IF stage = "gateup" THEN 2
    ELSE IF stage = "act" THEN 3
    ELSE IF stage = "down" THEN 4
    ELSE IF stage = "unpermute" THEN 5
    \* the fused kernel is the whole pipeline
    ELSE 0

\* C21: in every pipeline the stages are issued in the order permute,
\* gate/up matmul, activation (and quantization), down matmul, unpermute,
\* and no statement reads a tensor after dispose_tensor emptied it or a
\* name after del unbound it; a call that returns after the stages has
\* issued both matmuls with the activation between them, and has released
\* every buffer it releases only after the last statement reading it.
C21_StagesInOrderNoReadAfterRelease ==
    call.op = "run" =>
        /\ call.stale = {}
        /\ call.error # "UnboundLocalError"
        /\ \A i, j \in DOMAIN call.stages :
              i < j => StageRank(call.stages[i]) <= StageRank(call.stages[j])
        /\ \A i \in DOMAIN Program(env) : \A b \in Program(env)[i].frees :
              \A j \in DOMAIN Program(env) :
                 (j > i /\ b \in Program(env)[j].reads)
                    => \E k \in i + 1 .. j - 1 : b \in Program(env)[k].writes
        /\ (call.outcome = "returned" /\ env.rows > 0
              /\ call.names["gateup_output"] # "unbound") =>
              \E i, j, k \in DOMAIN call.stages :
                 /\ i < j /\ j < k
                 /\ call.stages[i] = "gateup"
                 /\ call.stages[j] = "act"
                 /\ call.stages[k] = "down"

\* a call of EPMoE.forward_normal returned after the five stages, with
\* the input disposed and the three intermediate buffers deleted
C21_Witness ==
    /\ env.pipeline = "EPMoE.forward_normal"
    /\ call.op = "run"
    /\ call.outcome = "returned"
    /\ call.stages = <<"permute", "gateup", "act", "down", "unpermute">>
    /\ call.names["hidden_states"] = "disposed"
    /\ \A b \in {"gateup_input", "gateup_output", "down_input"} :
          call.names[b] = "deleted"


(***************************************************************************)
(* Claims on the shards of one expert.                                     *)
(***************************************************************************)
\* the cells <<parameter, slot, row>> of the parameters ps
Cells(ps) ==
    UNION {UNION {{<<k, e, r>> : r \in DOMAIN ps[k][e]} : e \in DOMAIN ps[k]}
             : k \in DOMAIN ps}

\* the parameters after weight_loader loaded v as the shard sh of expert g
LoadInto(ps, weight_name, sh, g, v) ==
    LET key == <<ParamPrefix(sh), weight_name>>
    IN [ps EXCEPT ![key] = WeightLoader(layer.self, ps[key], v, weight_name,
                                        sh, g).param]

\* the cells that loading the shard sh of expert g writes
Region(ps, weight_name, sh, g) ==
    LET marked == LoadInto(ps, weight_name, sh, g, -1)
    IN {c \in Cells(ps) : marked[c[1]][c[2]][c[3]] = -1}

RECURSIVE LoadAll(_, _, _, _)
\* the parameters after the shards of the sequence order were loaded
LoadAll(ps, weight_name, g, order) ==
    IF order = <<>> THEN ps
    ELSE LoadAll(LoadInto(ps, weight_name, Head(order), g,
                          ShardValue(Head(order), g)),
                 weight_name, g, Tail(order))

\* C22: for an expert with a slot on this worker and a weight or weight
\* scale, the gate shard and the up shard write two disjoint sets of cells
\* of the gate/up parameter and the down shard writes cells of the down
\* parameter only, all of them in the expert's local slots; no load
\* raises; after any loads in any order each loaded shard's cells hold
\* that shard's value and every other cell is as created, so the
\* parameters after the three loads are the same for every order.
C22_ShardsDisjointAnyOrder ==
    (load.op = "shards" /\ LocalSlots(layer.self, load.expert_id) # {}) =>
        LET g == load.expert_id
            created == CreateWeights(layer.self, layer.self.quant_config)
            region == [sh \in ShardIds |->
                          Region(created, load.weight_name, sh, g)]
            done == {load.order[i] : i \in DOMAIN load.order}
        IN /\ ~load.raised
           /\ region["w1"] \cap region["w3"] = {}
           /\ \A sh \in ShardIds :
                 /\ region[sh] # {}
                 /\ \A c \in region[sh] :
                       /\ c[1] = <<ParamPrefix(sh), load.weight_name>>
                       /\ c[2] \in LocalSlots(layer.self, g)
           /\ \A c \in Cells(params) :
                 /\ \A sh \in done :
                       c \in region[sh]
                          => params[c[1]][c[2]][c[3]] = ShardValue(sh, g)
                 /\ (\A sh \in done : c \notin region[sh])
                       => params[c[1]][c[2]][c[3]]
                             = created[c[1]][c[2]][c[3]]
           /\ Len(load.order) = 3 =>
                 params = LoadAll(created, load.weight_name, g,
                                  <<"w1", "w2", "w3">>)

\* the up, down and gate shard of a weight were loaded in that order for
\* an expert with two slots on this worker, and each half of both slots
\* holds its own shard
C22_Witness ==
    /\ load.op = "shards"
    /\ load.order = <<"w3", "w2", "w1">>
    /\ load.weight_name = "weight"
    /\ Cardinality(LocalSlots(layer.self, load.expert_id)) = 2
    /\ \A e \in LocalSlots(layer.self, load.expert_id) :
          /\ params[<<"w13", "weight">>][e][0]
                = ShardValue("w1", load.expert_id)
          /\ params[<<"w13", "weight">>][e][IntermediateSize]
                = ShardValue("w3", load.expert_id)
          /\ params[<<"w2", "weight">>][e][0]
                = ShardValue("w2", load.expert_id)


(***************************************************************************)
(* Claims on the expert ids of forward_aiter.                              *)
(***************************************************************************)
\* C23: after forward_aiter the caller's expert-id tensor holds what it
\* held before the call, whatever its dtype; the ids handed to fused_moe
\* are the given ones with -1 replaced by num_experts_per_partition; and
\* expert_mask is 1 at every local id and 0 at num_experts_per_partition.
C23_CallerIdsUnchanged ==
    call.op = "forward_aiter" =>
        LET n == dlayer.self.num_experts_per_partition
        IN /\ call.topk_idx = call.given
           /\ call.launched =>
                 call.topk_ids = [i \in DOMAIN call.given |->
                                     IF call.given[i] = -1 THEN n
                                     ELSE call.given[i]]
           /\ \A i \in 0 .. n - 1 : dlayer.self.expert_mask.data[i] = 1
           /\ dlayer.self.expert_mask.data[n] = 0


(***************************************************************************)
(* Claims on the backend of the grouped-GEMM pipelines.                    *)
(***************************************************************************)
\* the two pipelines that run on the grouped-GEMM backend
DeepgemmPipelines == {"forward_deepgemm_masked", "forward_deepgemm_contiguous"}

\* C24: on a constructed DeepEPMoE layer every forward call that reaches
\* the masked or the contiguous grouped-GEMM pipeline finds
\* ENABLE_JIT_DEEPGEMM set and use_fp8_w8a8 true; a layer built without
\* the flag or without fp8 has no call in either pipeline, and a
\* configuration that asks for a low-latency mode without the flag, or
\* for the flag without fp8, has no layer at all.
C24_DeepgemmPipelinesNeedBackendAndFp8 ==
    /\ (dlayer.status = "ok" /\ call.op = "forward"
            /\ call.pipeline \in DeepgemmPipelines) =>
          /\ env.ENABLE_JIT_DEEPGEMM
          /\ dlayer.self.use_fp8_w8a8
    /\ dlayer.status = "ok" =>
          /\ env.ENABLE_JIT_DEEPGEMM => dlayer.self.use_fp8_w8a8
          /\ EnableLowLatency(dlayer.self.deepep_mode) =>
                env.ENABLE_JIT_DEEPGEMM
    /\ ((env.ENABLE_JIT_DEEPGEMM /\ ~QuantFields(env.quant_config).use_fp8_w8a8)
            \/ (EnableLowLatency(env.deepep_mode) /\ ~env.ENABLE_JIT_DEEPGEMM)) =>
          /\ dlayer.status # "ok"
          /\ call.op = "none"

\* a call on a layer in mode auto that reached the masked pipeline in a
\* decode batch and returned
C24_Witness ==
    /\ dlayer.status = "ok"
    /\ call.op = "forward"
    /\ call.pipeline = "forward_deepgemm_masked"
    /\ call.outcome = "returned"
    /\ env.deepep_mode = "auto"
    /\ ~call.is_extend_in_batch
    /\ Sum(call.recv) > 0
    /\ env.ENABLE_JIT_DEEPGEMM
    /\ dlayer.self.use_fp8_w8a8

==========================================================================
